---- MODULE Spec2Model ----
(***************************************************************************)
(* A model of mcp-code-indexer: the snapshot-aware indexing pipeline       *)
(* (indexer.py) over the SQLite snapshot store (db.py) and the Qdrant      *)
(* vector index (qdrant_store.py), with the chunkers (chunkers.py) and the *)
(* Python analyzer (py_analyze.py) it calls.                               *)
(*                                                                         *)
(* Texts are sequences of one-character strings, so that splitlines, join, *)
(* strip, slicing and len are computed as Python computes them.  A file's  *)
(* syntax tree is what ast.parse returns for its text (ast is the Python   *)
(* standard library, outside the repository): it is given with the text.   *)
(***************************************************************************)
EXTENDS Integers, Sequences, FiniteSets, Bags, TLC

(***************************************************************************)
(* Model bounds and configuration.                                         *)
(***************************************************************************)
\* Number of indexing runs a behaviour may hold (the largest value of `now`).
MaxRuns == 2
\* Number of changes to the source tree (file writes, checkouts) of a behaviour.
MaxEdits == 1
\* jobs submitted to the JobManager
MaxJobs == 3
\* the number of calls of the tools that take paths
MaxCalls == 2
\* cfg.max_chunk_chars, cfg.max_fallback_lines, cfg.fallback_overlap_lines:
\* configuration (environment variables), scaled to the model's small files.
max_chunk_chars == 12
max_fallback_lines == 2
fallback_overlap_lines == 1
\* Literals of the source.
HeadLines == 80
PyFallbackMaxLines == 220
PyFallbackOverlap == 40
CtxRadius == 40
\* ThreadPoolExecutor(max_workers=1)
max_workers == 1

None == "None"
NL == "\n"
Min(a, b) == IF a < b THEN a ELSE b
Max(a, b) == IF a > b THEN a ELSE b

(***************************************************************************)
(* Python string and list primitives.                                      *)
(***************************************************************************)
IsSpace(ch) == ch \in {" ", NL, "\t"}

RECURSIVE SplitAcc(_, _, _)
SplitAcc(s, cur, acc) ==
    IF s = <<>> THEN (IF cur = <<>> THEN acc ELSE Append(acc, cur))
    ELSE IF Head(s) = NL THEN SplitAcc(Tail(s), <<>>, Append(acc, cur))
    ELSE SplitAcc(Tail(s), Append(cur, Head(s)), acc)

\* str.splitlines()
splitlines(text) == SplitAcc(text, <<>>, <<>>)

RECURSIVE JoinFrom(_, _)
JoinFrom(lines, k) ==
    IF k > Len(lines) THEN <<>>
    ELSE IF k = Len(lines) THEN lines[k]
    ELSE lines[k] \o <<NL>> \o JoinFrom(lines, k + 1)

\* "\n".join(lines)
join(lines) == JoinFrom(lines, 1)

RECURSIVE lstrip(_)
lstrip(s) == IF s # <<>> /\ IsSpace(Head(s)) THEN lstrip(Tail(s)) ELSE s

RECURSIVE rstrip(_)
rstrip(s) ==
    IF s # <<>> /\ IsSpace(s[Len(s)]) THEN rstrip(SubSeq(s, 1, Len(s) - 1)) ELSE s

\* str.strip()
strip(s) == rstrip(lstrip(s))

\* seq[i:j] for 0 <= i, 0 <= j (Python slice, clamped)
PySlice(s, i, j) == SubSeq(s, Min(i, Len(s)) + 1, Min(j, Len(s)))

\* name.split(".")[-1] of a dotted path kept as its sequence of segments
LastSegment(parts) == parts[Len(parts)]

(***************************************************************************)
(* hashing.py, ids.py and the point id of indexer.py.  SHA-256 and UUIDv5  *)
(* are modelled as injective on their input (no collisions).               *)
(***************************************************************************)
sha256_text(text) == <<"sha256", text>>
sha256_file(text) == <<"sha256", text>>

make_symbol_id(workspace_id, git_ref, file_path, qualname, kind, start_line, end_line) ==
    <<"uuid5", workspace_id, git_ref, file_path, qualname, kind, start_line, end_line>>

point_id(wid, git_ref, c) ==
    <<"uuid5", wid, git_ref, c.file_path, c.start_line, c.end_line, sha256_text(c.text)>>

(***************************************************************************)
(* chunkers.py                                                             *)
(***************************************************************************)
Chunk(file_path, language, chunk_type, symbol_name, start_line, end_line, text) ==
    [file_path |-> file_path, language |-> language, chunk_type |-> chunk_type,
     symbol_name |-> symbol_name, start_line |-> start_line, end_line |-> end_line,
     text |-> text]

\* j = min(n, i + max_lines)
WindowEnd_whole(n, i, max_lines) == n
WindowEnd(n, i, max_lines) == Min(n, i + max_lines)

\* i = max(0, j - overlap_lines)
NextStart_none(j, overlap_lines) == j
NextStart(j, overlap_lines) == Max(0, j - overlap_lines)

RECURSIVE FallbackLoop(_, _, _, _, _, _, _)
FallbackLoop(rel_path, lines, language, max_lines, overlap_lines, i, out) ==
    LET n == Len(lines)
        j == WindowEnd(n, i, max_lines)
        window == strip(join(PySlice(lines, i, j)))
        out2 == IF window # <<>>
                THEN Append(out, Chunk(rel_path, language, "window", None, i + 1, j, window))
                ELSE out
    IN  IF ~(i < n) THEN out
        ELSE IF j >= n THEN out2
        ELSE FallbackLoop(rel_path, lines, language, max_lines, overlap_lines,
                          NextStart(j, overlap_lines), out2)

chunk_fallback(rel_path, text, language, max_lines, overlap_lines) ==
    FallbackLoop(rel_path, splitlines(text), language, max_lines, overlap_lines, 0, <<>>)

\* flush of _window_chunks: the out list after flushing buf
Flush(out, rel_path, lang, symbol, buf_start, cur_line_exclusive, buf) ==
    LET t == strip(join(buf))
    IN  IF t # <<>>
        THEN Append(out, Chunk(rel_path, lang, "window", symbol, buf_start,
                               cur_line_exclusive - 1, t))
        ELSE out

RECURSIVE WindowLoop(_, _, _, _, _, _, _, _, _, _)
WindowLoop(rel_path, lang, symbol, lines, k, max_chars, out, buf, buf_start, cur_line) ==
    IF k > Len(lines)
    THEN (IF buf # <<>> THEN Flush(out, rel_path, lang, symbol, buf_start, cur_line, buf)
          ELSE out)
    ELSE LET line == lines[k]
             prospective == join(Append(buf, line))
             full == buf # <<>> /\ Len(prospective) > max_chars
         IN  WindowLoop(rel_path, lang, symbol, lines, k + 1, max_chars,
                        IF full THEN Flush(out, rel_path, lang, symbol, buf_start, cur_line, buf)
                        ELSE out,
                        IF full THEN <<line>> ELSE Append(buf, line),
                        IF full THEN cur_line ELSE buf_start,
                        cur_line + 1)

window_chunks(rel_path, lang, chunk_type, symbol, lines, start_line, max_chars) ==
    WindowLoop(rel_path, lang, symbol, lines, 1, max_chars, <<>>, <<>>, start_line, start_line)

IsTopDef(node) == node.t \in {"FunctionDef", "AsyncFunctionDef", "ClassDef"}

RECURSIVE PyBodyLoop(_, _, _, _, _, _)
PyBodyLoop(rel_path, lines, body, k, max_chars, acc) ==
    IF k > Len(body) THEN acc
    ELSE LET node == body[k]
             kind == IF node.t = "ClassDef" THEN "class" ELSE "function"
             seg_lines == PySlice(lines, node.lineno - 1, node.end_lineno)
             seg_text == strip(join(seg_lines))
             syms == Append(acc.symbols, <<node.name, kind, node.lineno, node.end_lineno>>)
         IN  IF ~IsTopDef(node) THEN PyBodyLoop(rel_path, lines, body, k + 1, max_chars, acc)
             ELSE IF seg_text = <<>>
             THEN PyBodyLoop(rel_path, lines, body, k + 1, max_chars,
                             [acc EXCEPT !.symbols = syms])
             ELSE IF Len(seg_text) > max_chars
             THEN PyBodyLoop(rel_path, lines, body, k + 1, max_chars,
                      [chunks |-> acc.chunks \o window_chunks(rel_path, "python", kind,
                                      node.name, seg_lines, node.lineno, max_chars),
                       symbols |-> syms])
             ELSE PyBodyLoop(rel_path, lines, body, k + 1, max_chars,
                      [chunks |-> Append(acc.chunks, Chunk(rel_path, "python", kind,
                                      node.name, node.lineno, node.end_lineno, seg_text)),
                       symbols |-> syms])

\* chunk_python: src is [text, ok, tree]; ok is FALSE when ast.parse raises SyntaxError
chunk_python(rel_path, src, max_chars) ==
    IF ~src.ok
    THEN [chunks |-> chunk_fallback(rel_path, src.text, "python",
                                    PyFallbackMaxLines, PyFallbackOverlap),
          symbols |-> <<>>]
    ELSE LET lines == splitlines(src.text)
             head_end == Min(Len(lines), HeadLines)
             head_text == strip(join(PySlice(lines, 0, head_end)))
             head == IF head_text # <<>>
                     THEN <<Chunk(rel_path, "python", "module", None, 1, head_end,
                                  PySlice(head_text, 0, max_chars))>>
                     ELSE <<>>
         IN  PyBodyLoop(rel_path, lines, src.tree, 1, max_chars,
                        [chunks |-> head, symbols |-> <<>>])

(***************************************************************************)
(* py_analyze.py.  A syntax-tree node is a record; `parts` of a Call is    *)
(* the attribute chain of its func as _callee_str walks it, `name` the id  *)
(* of the ast.Name at its root (None when the root is no Name).  A dotted  *)
(* name (qualname, callee) is kept as its sequence of segments.            *)
(***************************************************************************)
Node(t, name, lineno, end_lineno, col_offset, parts, body) ==
    [t |-> t, name |-> name, lineno |-> lineno, end_lineno |-> end_lineno,
     col_offset |-> col_offset, parts |-> parts, body |-> body]

PyDef(name, qualname, kind, start_line, end_line) ==
    [name |-> name, qualname |-> qualname, kind |-> kind,
     start_line |-> start_line, end_line |-> end_line]
PyRef(name, line, col, context) ==
    [name |-> name, line |-> line, col |-> col, context |-> context]
PyCall(caller_qualname, callee, line) ==
    [caller_qualname |-> caller_qualname, callee |-> callee, line |-> line]

get_line(lines, lineno) ==
    IF 1 <= lineno /\ lineno <= Len(lines) THEN lines[lineno] ELSE <<>>

callee_str(node) == IF node.parts = <<>> THEN <<"<call>">> ELSE node.parts

\* Analyzer._qualname
qualname_of(scope, name) == Append(scope, name)

\* Analyzer.visit_Name (ctx is Load for the root name of a called expression)
visit_Name(lines, node, an) ==
    LET lt == get_line(lines, node.lineno)
        start == Max(0, node.col_offset - CtxRadius)
        end == Min(Len(lt), node.col_offset + Len(node.name) + CtxRadius)
    IN  [an EXCEPT !.refs = Append(@, PyRef(node.name, node.lineno, node.col_offset,
                                            PySlice(lt, start, end)))]

\* Analyzer.visit_Call: the call site, then generic_visit reaches the root Name
visit_Call(lines, node, scope, callables, an) ==
    LET an1 == IF callables # <<>>
               THEN [an EXCEPT !.calls = Append(@, PyCall(callables[Len(callables)],
                                                          callee_str(node), node.lineno))]
               ELSE an
    IN  IF node.name # None THEN visit_Name(lines, node, an1) ELSE an1

RECURSIVE generic_visit(_, _, _, _, _, _)
RECURSIVE visit(_, _, _, _, _)

\* Analyzer.visit_ClassDef, Analyzer._visit_function, Analyzer.visit_Call
visit(lines, node, scope, callables, an) ==
    LET qn == qualname_of(scope, node.name)
    IN  CASE node.t = "ClassDef" ->
               generic_visit(lines, node.body, 1, Append(scope, node.name), callables,
                   [an EXCEPT !.defs = Append(@, PyDef(node.name, qn, "class",
                                                       node.lineno, node.end_lineno))])
          [] node.t \in {"FunctionDef", "AsyncFunctionDef"} ->
               generic_visit(lines, node.body, 1, Append(scope, node.name),
                   Append(callables, qn),
                   [an EXCEPT !.defs = Append(@, PyDef(node.name, qn,
                                                   IF scope # <<>> THEN "method" ELSE "function",
                                                   node.lineno, node.end_lineno))])
          [] node.t = "Call" -> visit_Call(lines, node, scope, callables, an)
          [] OTHER -> an

generic_visit(lines, body, k, scope, callables, an) ==
    IF k > Len(body) THEN an
    ELSE generic_visit(lines, body, k + 1, scope, callables,
                       visit(lines, body[k], scope, callables, an))

\* analyze_python_source: (defs, refs, calls), all empty on SyntaxError
analyze_python_source(src) ==
    IF ~src.ok THEN [defs |-> <<>>, refs |-> <<>>, calls |-> <<>>]
    ELSE generic_visit(splitlines(src.text), src.tree, 1, <<>>, <<>>,
                       [defs |-> <<>>, refs |-> <<>>, calls |-> <<>>])

(***************************************************************************)
(* The file contents of the model: each a text with what ast.parse gives   *)
(* for it.                                                                 *)
(***************************************************************************)
Source(text, ok, tree) == [text |-> text, ok |-> ok, tree |-> tree]

\* def m():\n h()\n
PyCaller ==
    Source(<<"d", "e", "f", " ", "m", "(", ")", ":", NL, " ", "h", "(", ")", NL>>, TRUE,
           <<Node("FunctionDef", "m", 1, 2, 0, <<>>,
                  <<Node("Call", "h", 2, 2, 1, <<"h">>, <<>>)>>)>>)

\* x=1\ndef m():\n h()\n
PyShift ==
    Source(<<"x", "=", "1", NL, "d", "e", "f", " ", "m", "(", ")", ":", NL,
             " ", "h", "(", ")", NL>>, TRUE,
           <<Node("Assign", None, 1, 1, 0, <<>>, <<>>),
             Node("FunctionDef", "m", 2, 3, 0, <<>>,
                  <<Node("Call", "h", 3, 3, 1, <<"h">>, <<>>)>>)>>)

\* def h():\n 0\ndef m():\n h()\n
PyLocal ==
    Source(<<"d", "e", "f", " ", "h", "(", ")", ":", NL, " ", "0", NL,
             "d", "e", "f", " ", "m", "(", ")", ":", NL, " ", "h", "(", ")", NL>>, TRUE,
           <<Node("FunctionDef", "h", 1, 2, 0, <<>>, <<>>),
             Node("FunctionDef", "m", 3, 4, 0, <<>>,
                  <<Node("Call", "h", 4, 4, 1, <<"h">>, <<>>)>>)>>)

\* def h():\n 0\n
PyHelper ==
    Source(<<"d", "e", "f", " ", "h", "(", ")", ":", NL, " ", "0", NL>>, TRUE,
           <<Node("FunctionDef", "h", 1, 2, 0, <<>>, <<>>)>>)

\* def h():\n 0\nclass K:\n def h(s):\n  0\n
PyTwo ==
    Source(<<"d", "e", "f", " ", "h", "(", ")", ":", NL, " ", "0", NL,
             "c", "l", "a", "s", "s", " ", "K", ":", NL,
             " ", "d", "e", "f", " ", "h", "(", "s", ")", ":", NL, " ", " ", "0", NL>>, TRUE,
           <<Node("FunctionDef", "h", 1, 2, 0, <<>>, <<>>),
             Node("ClassDef", "K", 3, 5, 0, <<>>,
                  <<Node("FunctionDef", "h", 4, 5, 1, <<>>, <<>>)>>)>>)

\* def m():\n h()\ndef m():\n 0\n   (m is defined twice)
PyTwice ==
    Source(<<"d", "e", "f", " ", "m", "(", ")", ":", NL, " ", "h", "(", ")", NL,
             "d", "e", "f", " ", "m", "(", ")", ":", NL, " ", "0", NL>>, TRUE,
           <<Node("FunctionDef", "m", 1, 2, 0, <<>>,
                  <<Node("Call", "h", 2, 2, 1, <<"h">>, <<>>)>>),
             Node("FunctionDef", "m", 3, 4, 0, <<>>,
                  <<Node("Expr", None, 4, 4, 1, <<>>, <<>>)>>)>>)

\* def (\n   -- ast.parse raises SyntaxError
PyBad == Source(<<"d", "e", "f", " ", "(", NL>>, FALSE, <<>>)

\* # a\n\nb\nc\n   (three fallback windows under the model's configuration)
MdLong == Source(<<"#", " ", "a", NL, NL, "b", NL, "c", NL>>, FALSE, <<>>)

\* # a\n
MdShort == Source(<<"#", " ", "a", NL>>, FALSE, <<>>)

(***************************************************************************)
(* The source tree, the workspace and the state of an indexing run.        *)
(***************************************************************************)
Content(name) ==
    CASE name = "PyCaller" -> PyCaller
      [] name = "PyShift" -> PyShift
      [] name = "PyLocal" -> PyLocal
      [] name = "PyHelper" -> PyHelper
      [] name = "PyTwo" -> PyTwo
      [] name = "PyBad" -> PyBad
      [] name = "PyTwice" -> PyTwice
      [] name = "MdLong" -> MdLong
      [] name = "MdShort" -> MdShort

Files == {"a.py", "b.py", "docs/n.md"}
ContentsOf(f) ==
    CASE f = "a.py" -> {"PyCaller", "PyShift", "PyLocal"}
      [] f = "b.py" -> {"PyTwo", "PyHelper", "PyBad"}
      [] f = "docs/n.md" -> {"MdLong", "MdShort"}
Mtimes == {1, 2}
Revs == {"working_tree", "c0ffee"}
RepoRoot == "/repo"

\* guess_language, on the suffixes of the model's paths
guess_language(path) ==
    CASE path \in {"a.py", "b.py", "gone.py"} -> "python"
      [] path = "docs/n.md" -> "markdown"
      [] OTHER -> "text"

workspace_id_for(repo_root) == sha256_text(repo_root)

(***************************************************************************)
(* Paths.  A path string is read as pathlib reads it: absolute or not, and *)
(* its segments.  The tree holds no symbolic link.                         *)
(***************************************************************************)
PathStrings ==
    {"a.py", "b.py", "docs/n.md", "gone.py", "./a.py", "/b.py", "../x.py",
     "docs/../../x.py", "docs/../b.py"}

\* Path(p): p.is_absolute() and p.parts
PathParts(p) ==
    CASE p = "a.py" -> [abs |-> FALSE, segs |-> <<"a.py">>]
      [] p = "b.py" -> [abs |-> FALSE, segs |-> <<"b.py">>]
      [] p = "docs/n.md" -> [abs |-> FALSE, segs |-> <<"docs", "n.md">>]
      [] p = "gone.py" -> [abs |-> FALSE, segs |-> <<"gone.py">>]
      [] p = "./a.py" -> [abs |-> FALSE, segs |-> <<".", "a.py">>]
      [] p = "/b.py" -> [abs |-> TRUE, segs |-> <<"b.py">>]
      [] p = "../x.py" -> [abs |-> FALSE, segs |-> <<"..", "x.py">>]
      [] p = "docs/../../x.py" -> [abs |-> FALSE, segs |-> <<"docs", "..", "..", "x.py">>]
      [] p = "docs/../b.py" -> [abs |-> FALSE, segs |-> <<"docs", "..", "b.py">>]

\* the string of a path given by its parts
PathString(parts) == CHOOSE p \in PathStrings : PathParts(p) = parts

\* the segments of repo_root below "/"
RootSegs == <<"repo">>

\* Path.resolve() on the segments below "/": "." is dropped, ".." goes up
RECURSIVE ResolveFrom(_, _, _)
ResolveFrom(stack, segs, k) ==
    IF k > Len(segs) THEN stack
    ELSE ResolveFrom(
             IF segs[k] = "." THEN stack
             ELSE IF segs[k] = ".." THEN SubSeq(stack, 1, Len(stack) - 1)
             ELSE Append(stack, segs[k]),
             segs, k + 1)

\* (repo_root / p).resolve()
resolve(parts) == ResolveFrom(IF parts.abs THEN <<>> ELSE RootSegs, parts.segs, 1)

\* resolved.relative_to(repo_root) does not raise ValueError
IsUnderRoot(resolved) ==
    /\ Len(resolved) >= Len(RootSegs)
    /\ SubSeq(resolved, 1, Len(RootSegs)) = RootSegs

\* a resolution that lands on a.py whatever the path
DiskFile_first(rel) == "a.py"

\* the file of the tree that (repo_root / rel).resolve() names, as its path
\* relative to repo_root; None when the path leaves repo_root
DiskFile(rel) ==
    LET resolved == resolve(PathParts(rel))
    IN  IF IsUnderRoot(resolved) /\ Len(resolved) > Len(RootSegs)
        THEN PathString([abs |-> FALSE,
                         segs |-> SubSeq(resolved, Len(RootSegs) + 1, Len(resolved))])
        ELSE None

\* The orders discover_files may return the files in: os.walk lists the files
\* of the root directory, in the order the file system gives them, before it
\* descends into docs/
Orderings(S) ==
    {o \in [1..Cardinality(S) -> S] : \A i, j \in 1..Cardinality(S) : i # j => o[i] # o[j]}
DiscoveryOrders ==
    {top \o sub : top \in Orderings({"a.py", "b.py"}), sub \in Orderings({"docs/n.md"})}

\* The rel_paths lists index_paths is called with: a single path, one path
\* twice, a path that does not exist
PathLists == {<<"a.py">>, <<"b.py", "b.py">>, <<"gone.py", "docs/n.md">>}

VARIABLES
    tree,           \* the working tree: file -> [c: content name, mtime, mode]
    head,           \* what `git rev-parse HEAD` gives (or "working_tree")
    clock,          \* number of runs started: datetime.utcnow() of the latest run
    edits,          \* number of changes made to the tree so far
    pc,             \* position of the indexing run ("idle" when none runs)
    run,            \* locals of index_repo / index_paths
    cur,            \* locals of the loop body: the file being processed
    result,         \* the summary the latest run returned
    workspaces, snapshots, files_snap, symbols_snap,
    py_symbols, py_refs, py_call_edges, chunk_fts,   \* SQLite tables (db.py)
    points,         \* the Qdrant collection
    hist,           \* history: what the properties need to remember of the past
    jobs,           \* SQLite table jobs: job_id -> row
    work_queue,     \* the executor's queue of submitted work items (job ids)
    futures,        \* JobManager._futures: job_id -> the Future of wrapped()
    workers,        \* the executor's threads: thread -> [pc, job]
    runners,        \* what the runner passed to create_job does: job_id -> behaviour
    poll,           \* locals and latest response of index_status
    reply,          \* the outcome of the latest call of a tool taking paths
    cg,             \* the locals of a call of py_callgraph
    hs,             \* the locals of a call of hybrid_search
    ck              \* a call of chunk_python, chunk_fallback or analyze_python_source

envVars == <<tree, head, edits>>
runVars == <<clock, pc, run, cur, result>>
sqlVars == <<workspaces, snapshots, files_snap, symbols_snap,
             py_symbols, py_refs, py_call_edges, chunk_fts>>
indexVars == <<envVars, runVars, sqlVars, points, hist>>
jobVars == <<jobs, work_queue, futures, workers, runners, poll>>
\* the state of the server beside the index: the job manager and its callers
toolVars == <<reply, cg, hs, ck>>
serverVars == <<jobVars, toolVars>>
vars == <<indexVars, serverVars>>

\* An absent value of a tuple-valued place (SQL NULL, a fetch_one without a row)
Null == <<>>

NoRun == [kind |-> None, wid |-> Null, now |-> 0, git_ref |-> None, files |-> <<>>,
          total |-> 0, processed |-> 0, changed |-> 0]
\* verdict: the branch the loop body took for the file ("missing", "unchanged",
\* "changed", "error")
NoCur == [rel |-> None, c |-> None, mtime |-> 0, size |-> 0, lang |-> None,
          file_hash |-> Null, row |-> Null, verdict |-> None]

\* fresh: the tree and HEAD are as the latest completed index_repo run left them
\*        and no other run has started since
\* rerun: the run in progress (or the latest run) is an index_repo run started
\*        when fresh held
\* ids_before: the point ids stored for the file when its processing began
\* before: the stores as they were when the processing of a changed file began
NoHist == [fresh |-> FALSE, rerun |-> FALSE, ids_before |-> {}, before |-> Null,
           discovered |-> {}]

BaseInit ==
    /\ tree = [f \in Files |->
                 [c |-> CASE f = "a.py" -> "PyCaller" [] f = "b.py" -> "PyTwo"
                          [] f = "docs/n.md" -> "MdLong",
                  mtime |-> 1, mode |-> "ok"]]
    /\ head = "working_tree"
    /\ clock = 0
    /\ edits = 0
    /\ pc = "idle"
    /\ run = NoRun
    /\ cur = NoCur
    /\ result = Null
    /\ files_snap = {}
    /\ symbols_snap = {}
    /\ py_refs = {}
    /\ chunk_fts = EmptyBag
    /\ points = {}
    /\ hist = NoHist

\* a new database: every table is empty
IndexInit ==
    /\ BaseInit
    /\ workspaces = {}
    /\ snapshots = {}
    /\ py_symbols = {}
    /\ py_call_edges = EmptyBag

\* an executor with two threads
Workers_two == 1..2

\* JobManager.__post_init__: an executor of max_workers threads, no job yet
Workers == 1..max_workers
NoPoll == [pc |-> "idle", job_id |-> 0, row |-> Null, response |-> Null]
JobInit ==
    /\ jobs = <<>>
    /\ work_queue = <<>>
    /\ futures = <<>>
    /\ workers = [w \in Workers |-> [pc |-> "idle", job |-> 0]]
    /\ runners = <<>>
    /\ poll = NoPoll

\* no call of py_callgraph was made
NoCall ==
    [pc |-> "idle", symbol_id |-> Null, depth |-> 0, direction |-> None, git_ref |-> None,
     hops |-> 0, nodes |-> {}, edges |-> EmptyBag, frontier |-> {}, error |-> None]

\* no call of hybrid_search, and none of a chunker or the analyzer, was made
NoSearch == [pc |-> "idle"]
NoChunking == [pc |-> "idle"]

ToolInit == reply = Null /\ cg = NoCall /\ hs = NoSearch /\ ck = NoChunking

Init == IndexInit /\ JobInit /\ ToolInit

(***************************************************************************)
(* The environment: the tree changes between runs.                         *)
(***************************************************************************)
\* the stores a run writes per file
StoreView ==
    <<files_snap, symbols_snap, py_symbols, py_refs, py_call_edges, chunk_fts, points>>

\* no run is in progress: none was started, or the latest returned or raised
Quiescent == pc \in {"idle", "raised"}

\* A file is written: new content (or the same: a touch), new mtime
WriteFile(f, c) ==
    /\ Quiescent
    /\ edits < MaxEdits
    /\ tree' = [tree EXCEPT ![f] = [c |-> c, mtime |-> CHOOSE m \in Mtimes : m # tree[f].mtime,
                                    mode |-> "ok"]]
    /\ edits' = edits + 1
    /\ hist' = [hist EXCEPT !.fresh = FALSE]
    /\ UNCHANGED <<head, runVars, sqlVars, points>>
    /\ UNCHANGED serverVars

\* HEAD moves to another revision
Checkout(r) ==
    /\ Quiescent
    /\ edits < MaxEdits
    /\ r # head
    /\ head' = r
    /\ edits' = edits + 1
    /\ hist' = [hist EXCEPT !.fresh = FALSE]
    /\ UNCHANGED <<tree, runVars, sqlVars, points>>
    /\ UNCHANGED serverVars

(***************************************************************************)
(* qdrant_store.py: the collection is a set of points, one per point id.   *)
(* A point's vector is the embedding of payload.text and is left out.      *)
(***************************************************************************)
PayloadMatches(p, workspace_id, file_path, git_ref) ==
    /\ p.payload.workspace_id = workspace_id
    /\ p.payload.file_path = file_path
    /\ p.payload.git_ref = git_ref

\* a delete_file that deletes nothing
delete_file_skipped(pts, workspace_id, file_path, git_ref) == pts

\* a delete_file whose filter leaves out git_ref
delete_file_any_ref(pts, workspace_id, file_path, git_ref) ==
    {p \in pts : ~(p.payload.workspace_id = workspace_id /\ p.payload.file_path = file_path)}

\* QdrantStore.delete_file
delete_file(pts, workspace_id, file_path, git_ref) ==
    {p \in pts : ~PayloadMatches(p, workspace_id, file_path, git_ref)}

RECURSIVE UpsertFrom(_, _, _)
UpsertFrom(pts, new, k) ==
    IF k > Len(new) THEN pts
    ELSE UpsertFrom({p \in pts : p.id # new[k].id} \cup {new[k]}, new, k + 1)

\* QdrantStore.upsert_chunks: a point replaces the stored point of the same id
upsert_chunks(pts, new) == IF new = <<>> THEN pts ELSE UpsertFrom(pts, new, 1)

(***************************************************************************)
(* indexer.py: what the loop body computes for the file being processed.   *)
(***************************************************************************)
CurSrc == Content(cur.c)

\* chunks, symbols = chunk_python(...) for Python, chunk_fallback(...), [] otherwise
ChunkFile(rel, lang, src) ==
    IF lang = "python"
    THEN chunk_python(rel, src, max_chunk_chars)
    ELSE [chunks |-> chunk_fallback(rel, src.text, lang,
                                    max_fallback_lines, fallback_overlap_lines),
          symbols |-> <<>>]

CurChunked == ChunkFile(cur.rel, cur.lang, CurSrc)

\* a PointStruct whose id also depends on the time of the run
PointOf_stamped(wid, git_ref, now, c) ==
    [id |-> <<point_id(wid, git_ref, c), now>>,
     payload |-> [workspace_id |-> wid, git_ref |-> git_ref, file_path |-> c.file_path,
                  language |-> c.language, chunk_type |-> c.chunk_type,
                  symbol_name |-> c.symbol_name, start_line |-> c.start_line,
                  end_line |-> c.end_line, text |-> c.text,
                  chunk_sha256 |-> sha256_text(c.text), updated_at |-> now]]

\* the PointStruct built for a chunk
PointOf(wid, git_ref, now, c) ==
    [id |-> point_id(wid, git_ref, c),
     payload |-> [workspace_id |-> wid, git_ref |-> git_ref, file_path |-> c.file_path,
                  language |-> c.language, chunk_type |-> c.chunk_type,
                  symbol_name |-> c.symbol_name, start_line |-> c.start_line,
                  end_line |-> c.end_line, text |-> c.text,
                  chunk_sha256 |-> sha256_text(c.text), updated_at |-> now]]

PointsOf(wid, git_ref, now, chunks) ==
    [k \in 1..Len(chunks) |-> PointOf(wid, git_ref, now, chunks[k])]

\* def_rows, in the order of py_defs
DefRows(wid, git_ref, rel, py_defs) ==
    [k \in 1..Len(py_defs) |->
        [symbol_id |-> make_symbol_id(wid, git_ref, rel, py_defs[k].qualname,
                                      py_defs[k].kind, py_defs[k].start_line,
                                      py_defs[k].end_line),
         workspace_id |-> wid, git_ref |-> git_ref, file_path |-> rel,
         symbol_name |-> py_defs[k].name, qualname |-> py_defs[k].qualname,
         symbol_kind |-> py_defs[k].kind, start_line |-> py_defs[k].start_line,
         end_line |-> py_defs[k].end_line]]

\* qual_to_id.get(qualname): the id of the last definition of that qualname
QualToId(def_rows, qualname) ==
    LET ks == {k \in DOMAIN def_rows : def_rows[k].qualname = qualname}
    IN  IF ks = {} THEN Null
        ELSE def_rows[CHOOSE k \in ks : \A j \in ks : j <= k].symbol_id

RefRows(wid, git_ref, rel, refs) ==
    [k \in 1..Len(refs) |->
        [workspace_id |-> wid, git_ref |-> git_ref, symbol_name |-> refs[k].name,
         file_path |-> rel, line |-> refs[k].line, col |-> refs[k].col,
         context |-> refs[k].context]]

\* a resolution that takes the first match, unique or not
resolve_target_first(def_rows, global_rows, base) ==
    LET local == {k \in DOMAIN def_rows : def_rows[k].symbol_name = base}
        global == {r \in global_rows : r.symbol_name = base}
    IN  IF local # {} THEN def_rows[CHOOSE k \in local : \A j \in local : k <= j].symbol_id
        ELSE IF global # {} THEN (CHOOSE r \in global : TRUE).symbol_id
        ELSE Null

\* The call-edge resolution of index_repo.  name_to_ids_local[base] lists the
\* ids of the def_rows named base, name_to_ids_global[base] those of the rows
\* fetch_all read from py_symbols for the snapshot.
resolve_target(def_rows, global_rows, base) ==
    LET local == {k \in DOMAIN def_rows : def_rows[k].symbol_name = base}
        global == {r \in global_rows : r.symbol_name = base}
    IN  IF Cardinality(local) = 1 THEN def_rows[CHOOSE k \in local : TRUE].symbol_id
        ELSE IF Cardinality(global) = 1 THEN (CHOOSE r \in global : TRUE).symbol_id
        ELSE Null

SeqToSet(q) == {q[k] : k \in DOMAIN q}

RECURSIVE EdgeRowsFrom(_, _, _, _, _, _, _)
EdgeRowsFrom(wid, git_ref, def_rows, global_rows, py_calls, k, out) ==
    IF k > Len(py_calls) THEN out
    ELSE LET c == py_calls[k]
             from_id == QualToId(def_rows, c.caller_qualname)
             base == LastSegment(c.callee)
             to_id == resolve_target(def_rows, global_rows, base)
         IN  EdgeRowsFrom(wid, git_ref, def_rows, global_rows, py_calls, k + 1,
                 IF from_id = Null THEN out
                 ELSE Append(out, [workspace_id |-> wid, git_ref |-> git_ref,
                                   from_symbol_id |-> from_id, to_name |-> c.callee,
                                   to_symbol_id |-> to_id, call_line |-> c.line]))

\* edge_rows, given the py_symbols rows of the snapshot read by fetch_all
EdgeRows(wid, git_ref, def_rows, global_rows, py_calls) ==
    EdgeRowsFrom(wid, git_ref, def_rows, global_rows, py_calls, 1, <<>>)

(***************************************************************************)
(* db.py: the statements of the pipeline, each a function of the table.    *)
(* A table with a primary key is a set of rows; chunk_fts (no key) and     *)
(* py_call_edges (a key holding the nullable to_symbol_id: SQLite takes    *)
(* NULLs of a key as distinct) are bags of rows.                           *)
(***************************************************************************)
InSnapFile(r, wid, git_ref, rel) ==
    r.workspace_id = wid /\ r.git_ref = git_ref /\ r.file_path = rel

\* DELETE FROM <table> WHERE workspace_id=? AND git_ref=? AND file_path=?
DeleteFileRows(table, wid, git_ref, rel) ==
    {r \in table : ~InSnapFile(r, wid, git_ref, rel)}

BagDeleteFileRows(bag, wid, git_ref, rel) ==
    [r \in {x \in DOMAIN bag : ~InSnapFile(x, wid, git_ref, rel)} |-> bag[r]]

\* DELETE FROM py_call_edges WHERE ... from_symbol_id IN (SELECT symbol_id FROM py_symbols ...)
DeleteEdgesOfFile(edges, symbols, wid, git_ref, rel) ==
    LET ids == {s.symbol_id : s \in {x \in symbols : InSnapFile(x, wid, git_ref, rel)}}
    IN  [r \in {x \in DOMAIN edges :
                  ~(x.workspace_id = wid /\ x.git_ref = git_ref /\ x.from_symbol_id \in ids)}
           |-> edges[r]]

RECURSIVE InsertOrReplaceSymbols(_, _, _)
InsertOrReplaceSymbols(table, rows, k) ==
    IF k > Len(rows) THEN table
    ELSE InsertOrReplaceSymbols(
             {r \in table : r.symbol_id # rows[k].symbol_id} \cup {rows[k]}, rows, k + 1)

SameRefKey(r, q) ==
    /\ r.workspace_id = q.workspace_id /\ r.git_ref = q.git_ref
    /\ r.symbol_name = q.symbol_name /\ r.file_path = q.file_path
    /\ r.line = q.line /\ r.col = q.col

RECURSIVE InsertOrReplaceRefs(_, _, _)
InsertOrReplaceRefs(table, rows, k) ==
    IF k > Len(rows) THEN table
    ELSE InsertOrReplaceRefs(
             {r \in table : ~SameRefKey(r, rows[k])} \cup {rows[k]}, rows, k + 1)

\* INSERT OR REPLACE INTO py_call_edges: the key is the whole row, and a row
\* with a NULL to_symbol_id conflicts with no row
RECURSIVE InsertOrReplaceEdges(_, _, _)
InsertOrReplaceEdges(edges, rows, k) ==
    IF k > Len(rows) THEN edges
    ELSE InsertOrReplaceEdges(
             IF rows[k].to_symbol_id # Null /\ BagIn(rows[k], edges) THEN edges
             ELSE edges (+) SetToBag({rows[k]}),
             rows, k + 1)

RECURSIVE InsertFts(_, _, _)
InsertFts(bag, rows, k) ==
    IF k > Len(rows) THEN bag ELSE InsertFts(bag (+) SetToBag({rows[k]}), rows, k + 1)

FtsRows(wid, git_ref, chunks) ==
    [k \in 1..Len(chunks) |->
        [workspace_id |-> wid, git_ref |-> git_ref, file_path |-> chunks[k].file_path,
         start_line |-> chunks[k].start_line, end_line |-> chunks[k].end_line,
         language |-> chunks[k].language, chunk_type |-> chunks[k].chunk_type,
         symbol_name |-> chunks[k].symbol_name, text |-> chunks[k].text]]

\* INSERT INTO files_snap ... ON CONFLICT(workspace_id,git_ref,file_path) DO UPDATE
UpsertFileRecord(table, row) ==
    DeleteFileRows(table, row.workspace_id, row.git_ref, row.file_path) \cup {row}

SameSymSnapKey(r, q) ==
    /\ InSnapFile(r, q.workspace_id, q.git_ref, q.file_path)
    /\ r.symbol_name = q.symbol_name /\ r.symbol_kind = q.symbol_kind
    /\ r.start_line = q.start_line

RECURSIVE InsertOrIgnoreSymSnap(_, _, _)
InsertOrIgnoreSymSnap(table, rows, k) ==
    IF k > Len(rows) THEN table
    ELSE InsertOrIgnoreSymSnap(
             IF \E r \in table : SameSymSnapKey(r, rows[k]) THEN table
             ELSE table \cup {rows[k]},
             rows, k + 1)

SymSnapRows(wid, git_ref, rel, symbols) ==
    [k \in 1..Len(symbols) |->
        [workspace_id |-> wid, git_ref |-> git_ref, file_path |-> rel,
         symbol_name |-> symbols[k][1], symbol_kind |-> symbols[k][2],
         start_line |-> symbols[k][3], end_line |-> symbols[k][4]]]

\* fetch_one(SELECT sha256, mtime, size FROM files_snap WHERE ...): <<row>> or Null
FetchFileRecord(table, wid, git_ref, rel) ==
    IF \E r \in table : InSnapFile(r, wid, git_ref, rel)
    THEN LET r == CHOOSE x \in table : InSnapFile(x, wid, git_ref, rel)
         IN  <<[sha256 |-> r.sha256, mtime |-> r.mtime, size |-> r.size]>>
    ELSE Null

\* a comparison that never finds a file unchanged
is_unchanged_never(row, file_hash, st_mtime, st_size) == FALSE

\* the comparison that classifies a file as unchanged
is_unchanged(row, file_hash, st_mtime, st_size) ==
    /\ row # Null
    /\ row[1].sha256 = file_hash
    /\ row[1].mtime = st_mtime
    /\ row[1].size = st_size

(***************************************************************************)
(* indexer.py: index_repo and index_paths.  Every execute() commits, so    *)
(* each statement is a step of its own; the loop body of the two functions *)
(* is the same code and is modelled once.                                  *)
(***************************************************************************)
\* get_git_ref
get_git_ref == head

\* discover_files: the files of the tree that p.is_file() and p.stat() find (none
\* of the model's files is ignored, binary or over 1 MB), in one of the orders
\* the walk may list them
discover_files(order) == SelectSeq(order, LAMBDA f : tree[f].mode # "gone")

PointIdsOfFile(pts, wid, git_ref, rel) ==
    {p.id : p \in {x \in pts : PayloadMatches(x, wid, rel, git_ref)}}

\* INSERT OR IGNORE INTO workspaces
InsertWorkspace(table, wid, repo_root, now) ==
    IF \E w \in table : w.workspace_id = wid THEN table
    ELSE table \cup {[workspace_id |-> wid, repo_root |-> repo_root, created_at |-> now]}

\* a snapshot table keeping one row per workspace
ReplaceSnapshot_per_workspace(table, wid, git_ref, now) ==
    {x \in table : x.workspace_id # wid}
        \cup {[workspace_id |-> wid, git_ref |-> git_ref, indexed_at |-> now]}

\* INSERT OR REPLACE INTO snapshots
ReplaceSnapshot(table, wid, git_ref, now) ==
    {x \in table : ~(x.workspace_id = wid /\ x.git_ref = git_ref)}
        \cup {[workspace_id |-> wid, git_ref |-> git_ref, indexed_at |-> now]}

\* index_repo up to its loop, index_paths up to its loop
BeginRun(kind, files) ==
    /\ Quiescent
    /\ clock < MaxRuns
    /\ clock' = clock + 1
    /\ workspaces' = InsertWorkspace(workspaces, workspace_id_for(RepoRoot), RepoRoot, clock')
    /\ snapshots' = ReplaceSnapshot(snapshots, workspace_id_for(RepoRoot), get_git_ref, clock')
    /\ run' = [kind |-> kind, wid |-> workspace_id_for(RepoRoot), now |-> clock',
               git_ref |-> get_git_ref, files |-> files, total |-> Len(files),
               processed |-> 0, changed |-> 0]
    /\ cur' = NoCur
    /\ pc' = "loop"
    /\ hist' = [fresh |-> FALSE, rerun |-> kind = "repo" /\ hist.fresh, ids_before |-> {},
                before |-> Null,
                discovered |-> IF kind = "repo" THEN SeqToSet(files) ELSE {}]
    /\ UNCHANGED <<envVars, result, files_snap, symbols_snap, py_symbols, py_refs,
                   py_call_edges, chunk_fts, points>>

\* a run started by a direct call of index_repo or index_paths
Begin(kind, files) == BeginRun(kind, files) /\ UNCHANGED serverVars

StartIndexRepo == \E order \in DiscoveryOrders : Begin("repo", discover_files(order))

StartIndexPaths == \E rel_paths \in PathLists : Begin("paths", rel_paths)

\* The head of the loop body: (index_paths: resolve, relative_to, exists,) stat,
\* language, digest, the FileRecord comparison
Scan ==
    /\ pc = "loop"
    /\ run.files # <<>>
    /\ LET rel == Head(run.files)
           f == DiskFile(rel)
           exists == f \in DOMAIN tree /\ tree[f].mode # "gone"
           next == [run EXCEPT !.files = Tail(@), !.processed = @ + 1]
       IN  IF ~exists
           THEN /\ run' = next
                /\ cur' = [cur EXCEPT !.rel = rel, !.verdict = "missing"]
                /\ UNCHANGED <<pc, hist>>
           ELSE IF tree[f].mode = "unreadable"
           THEN \* f.stat() succeeds, sha256_file(f) raises: the run ends
                /\ run' = next
                /\ cur' = [cur EXCEPT !.rel = rel, !.verdict = "error"]
                /\ pc' = "raised"
                /\ UNCHANGED hist
           ELSE LET text == Content(tree[f].c).text
                    file_hash == sha256_file(text)
                    row == FetchFileRecord(files_snap, run.wid, run.git_ref, rel)
                    same == is_unchanged(row, file_hash, tree[f].mtime, Len(text))
                IN  /\ cur' = [rel |-> rel, c |-> tree[f].c, mtime |-> tree[f].mtime,
                               size |-> Len(text), lang |-> guess_language(f),
                               file_hash |-> file_hash, row |-> row,
                               verdict |-> IF same THEN "unchanged" ELSE "changed"]
                    /\ run' = IF same THEN next ELSE [next EXCEPT !.changed = @ + 1]
                    /\ pc' = IF same THEN "loop" ELSE "vec_delete"
                    /\ hist' = [hist EXCEPT !.ids_before =
                                   PointIdsOfFile(points, run.wid, run.git_ref, rel),
                                             !.before = IF same THEN Null ELSE StoreView]
    /\ UNCHANGED <<envVars, clock, result, sqlVars, points>>
    /\ UNCHANGED serverVars

\* store.delete_file(wid, rel, git_ref)
VecDelete ==
    /\ pc = "vec_delete"
    /\ points' = delete_file(points, run.wid, cur.rel, run.git_ref)
    /\ pc' = "vec_upsert"
    /\ UNCHANGED <<envVars, clock, run, cur, result, sqlVars, hist>>
    /\ UNCHANGED serverVars

\* embed_passages, the PointStructs, store.upsert_chunks(points)
VecUpsert ==
    /\ pc = "vec_upsert"
    /\ points' = upsert_chunks(points, PointsOf(run.wid, run.git_ref, run.now, CurChunked.chunks))
    /\ pc' = IF cur.lang = "python" THEN "py_symbols_delete" ELSE "fts_delete"
    /\ UNCHANGED <<envVars, clock, run, cur, result, sqlVars, hist>>
    /\ UNCHANGED serverVars

CurAnalysis == analyze_python_source(CurSrc)
CurDefRows == DefRows(run.wid, run.git_ref, cur.rel, CurAnalysis.defs)

PySymbolsDelete ==
    /\ pc = "py_symbols_delete"
    /\ py_symbols' = DeleteFileRows(py_symbols, run.wid, run.git_ref, cur.rel)
    /\ pc' = "py_refs_delete"
    /\ UNCHANGED <<envVars, clock, run, cur, result, workspaces, snapshots, files_snap,
                   symbols_snap, py_refs, py_call_edges, chunk_fts, points, hist>>
    /\ UNCHANGED serverVars

PyRefsDelete ==
    /\ pc = "py_refs_delete"
    /\ py_refs' = DeleteFileRows(py_refs, run.wid, run.git_ref, cur.rel)
    /\ pc' = "py_edges_delete"
    /\ UNCHANGED <<envVars, clock, run, cur, result, workspaces, snapshots, files_snap,
                   symbols_snap, py_symbols, py_call_edges, chunk_fts, points, hist>>
    /\ UNCHANGED serverVars

PyEdgesDelete ==
    /\ pc = "py_edges_delete"
    /\ py_call_edges' = DeleteEdgesOfFile(py_call_edges, py_symbols, run.wid, run.git_ref, cur.rel)
    /\ pc' = "py_symbols_insert"
    /\ UNCHANGED <<envVars, clock, run, cur, result, workspaces, snapshots, files_snap,
                   symbols_snap, py_symbols, py_refs, chunk_fts, points, hist>>
    /\ UNCHANGED serverVars

\* if def_rows: executemany(INSERT OR REPLACE INTO py_symbols ...)
PySymbolsInsert ==
    /\ pc = "py_symbols_insert"
    /\ py_symbols' = InsertOrReplaceSymbols(py_symbols, CurDefRows, 1)
    /\ pc' = "py_refs_insert"
    /\ UNCHANGED <<envVars, clock, run, cur, result, workspaces, snapshots, files_snap,
                   symbols_snap, py_refs, py_call_edges, chunk_fts, points, hist>>
    /\ UNCHANGED serverVars

\* if py_refs: executemany(INSERT OR REPLACE INTO py_refs ...)
PyRefsInsert ==
    /\ pc = "py_refs_insert"
    /\ py_refs' = InsertOrReplaceRefs(py_refs,
                      RefRows(run.wid, run.git_ref, cur.rel, CurAnalysis.refs), 1)
    /\ pc' = "py_edges_insert"
    /\ UNCHANGED <<envVars, clock, run, cur, result, workspaces, snapshots, files_snap,
                   symbols_snap, py_symbols, py_call_edges, chunk_fts, points, hist>>
    /\ UNCHANGED serverVars

\* the py_symbols rows fetch_all reads for the snapshot
GlobalRows == {r \in py_symbols : r.workspace_id = run.wid /\ r.git_ref = run.git_ref}

\* if py_calls and def_rows: the name maps, edge_rows, executemany(INSERT OR REPLACE ...)
PyEdgesInsert ==
    /\ pc = "py_edges_insert"
    /\ py_call_edges' =
          IF CurAnalysis.calls # <<>> /\ CurDefRows # <<>>
          THEN InsertOrReplaceEdges(py_call_edges,
                   EdgeRows(run.wid, run.git_ref, CurDefRows, GlobalRows, CurAnalysis.calls), 1)
          ELSE py_call_edges
    /\ pc' = "fts_delete"
    /\ UNCHANGED <<envVars, clock, run, cur, result, workspaces, snapshots, files_snap,
                   symbols_snap, py_symbols, py_refs, chunk_fts, points, hist>>
    /\ UNCHANGED serverVars

FtsDelete ==
    /\ pc = "fts_delete"
    /\ chunk_fts' = BagDeleteFileRows(chunk_fts, run.wid, run.git_ref, cur.rel)
    /\ pc' = "fts_insert"
    /\ UNCHANGED <<envVars, clock, run, cur, result, workspaces, snapshots, files_snap,
                   symbols_snap, py_symbols, py_refs, py_call_edges, points, hist>>
    /\ UNCHANGED serverVars

\* if chunks: executemany(INSERT INTO chunk_fts ...)
FtsInsert ==
    /\ pc = "fts_insert"
    /\ chunk_fts' = InsertFts(chunk_fts, FtsRows(run.wid, run.git_ref, CurChunked.chunks), 1)
    /\ pc' = "files_snap_upsert"
    /\ UNCHANGED <<envVars, clock, run, cur, result, workspaces, snapshots, files_snap,
                   symbols_snap, py_symbols, py_refs, py_call_edges, points, hist>>
    /\ UNCHANGED serverVars

\* a row whose mtime and size parameters are bound in the wrong order
FileRecord_swapped(wid, git_ref, rel, file_hash, st_mtime, st_size, lang, now) ==
    [workspace_id |-> wid, git_ref |-> git_ref, file_path |-> rel, sha256 |-> file_hash,
     mtime |-> st_size, size |-> st_mtime, language |-> lang, updated_at |-> now]

\* the row written to files_snap
FileRecord(wid, git_ref, rel, file_hash, st_mtime, st_size, lang, now) ==
    [workspace_id |-> wid, git_ref |-> git_ref, file_path |-> rel, sha256 |-> file_hash,
     mtime |-> st_mtime, size |-> st_size, language |-> lang, updated_at |-> now]

FilesSnapUpsert ==
    /\ pc = "files_snap_upsert"
    /\ files_snap' = UpsertFileRecord(files_snap,
                         FileRecord(run.wid, run.git_ref, cur.rel, cur.file_hash,
                                    cur.mtime, cur.size, cur.lang, run.now))
    /\ pc' = "symbols_snap_delete"
    /\ UNCHANGED <<envVars, clock, run, cur, result, workspaces, snapshots, symbols_snap,
                   py_symbols, py_refs, py_call_edges, chunk_fts, points, hist>>
    /\ UNCHANGED serverVars

SymbolsSnapDelete ==
    /\ pc = "symbols_snap_delete"
    /\ symbols_snap' = DeleteFileRows(symbols_snap, run.wid, run.git_ref, cur.rel)
    /\ pc' = "symbols_snap_insert"
    /\ UNCHANGED <<envVars, clock, run, cur, result, workspaces, snapshots, files_snap,
                   py_symbols, py_refs, py_call_edges, chunk_fts, points, hist>>
    /\ UNCHANGED serverVars

\* if symbols: executemany(INSERT OR IGNORE INTO symbols_snap ...); the loop goes on
SymbolsSnapInsert ==
    /\ pc = "symbols_snap_insert"
    /\ symbols_snap' = InsertOrIgnoreSymSnap(symbols_snap,
                           SymSnapRows(run.wid, run.git_ref, cur.rel, CurChunked.symbols), 1)
    /\ pc' = "loop"
    /\ UNCHANGED <<envVars, clock, run, cur, result, workspaces, snapshots, files_snap,
                   py_symbols, py_refs, py_call_edges, chunk_fts, points, hist>>
    /\ UNCHANGED serverVars

\* the loop is over: the summary is returned
Return ==
    /\ pc = "loop"
    /\ run.files = <<>>
    /\ result' = <<[kind |-> run.kind, workspace_id |-> run.wid, repo_root |-> RepoRoot,
                    git_ref |-> run.git_ref, total |-> run.total, changed |-> run.changed]>>
    /\ pc' = "idle"
    /\ hist' = [hist EXCEPT !.fresh = run.kind = "repo", !.before = Null]
    /\ UNCHANGED <<envVars, clock, run, cur, sqlVars, points>>
    /\ UNCHANGED serverVars

Next ==
    \/ \E f \in Files : \E c \in ContentsOf(f) : WriteFile(f, c)
    \/ \E r \in Revs : Checkout(r)
    \/ StartIndexRepo
    \/ StartIndexPaths
    \/ Scan
    \/ VecDelete
    \/ VecUpsert
    \/ PySymbolsDelete
    \/ PyRefsDelete
    \/ PyEdgesDelete
    \/ PySymbolsInsert
    \/ PyRefsInsert
    \/ PyEdgesInsert
    \/ FtsDelete
    \/ FtsInsert
    \/ FilesSnapUpsert
    \/ SymbolsSnapDelete
    \/ SymbolsSnapInsert
    \/ Return

Spec == Init /\ [][Next]_vars

(***************************************************************************)
(* Files that vanish or become unreadable, between runs or between         *)
(* discovery and the moment the loop reaches them.                         *)
(***************************************************************************)
Remove(f) ==
    /\ pc \in {"idle", "raised", "loop"}
    /\ edits < MaxEdits
    /\ tree[f].mode # "gone"
    /\ tree' = [tree EXCEPT ![f].mode = "gone"]
    /\ edits' = edits + 1
    /\ hist' = [hist EXCEPT !.fresh = FALSE]
    /\ UNCHANGED <<head, runVars, sqlVars, points, serverVars>>

Chmod(f) ==
    /\ pc \in {"idle", "raised", "loop"}
    /\ edits < MaxEdits
    /\ tree[f].mode = "ok"
    /\ tree' = [tree EXCEPT ![f].mode = "unreadable"]
    /\ edits' = edits + 1
    /\ hist' = [hist EXCEPT !.fresh = FALSE]
    /\ UNCHANGED <<head, runVars, sqlVars, points, serverVars>>

FaultNext ==
    \/ Next
    \/ \E f \in Files : Remove(f)
    \/ \E f \in Files : Chmod(f)

FaultSpec == Init /\ [][FaultNext]_vars

(***************************************************************************)
(* What is stored for a file, for a revision.                              *)
(***************************************************************************)
AllPaths == Files \cup {"gone.py"}
TheWid == workspace_id_for(RepoRoot)

BagRestrict(bag, P(_)) == [r \in {x \in DOMAIN bag : P(x)} |-> bag[r]]

\* a call edge originates in file f of revision r: its origin symbol id is one
\* make_symbol_id derives for (wid, r, f)
EdgeOfFile(e, wid, r, f) ==
    /\ e.workspace_id = wid /\ e.git_ref = r
    /\ e.from_symbol_id[2] = wid /\ e.from_symbol_id[3] = r /\ e.from_symbol_id[4] = f

PointsOfFile(wid, r, f) == {p \in points : PayloadMatches(p, wid, f, r)}
FtsOfFile(wid, r, f) == BagRestrict(chunk_fts, LAMBDA x : InSnapFile(x, wid, r, f))
SymSnapOfFile(wid, r, f) == {x \in symbols_snap : InSnapFile(x, wid, r, f)}
PySymbolsOfFile(wid, r, f) == {x \in py_symbols : InSnapFile(x, wid, r, f)}
PyRefsOfFile(wid, r, f) == {x \in py_refs : InSnapFile(x, wid, r, f)}
EdgesOfFile(wid, r, f) == BagRestrict(py_call_edges, LAMBDA e : EdgeOfFile(e, wid, r, f))

\* the lexical/chunk rows, symbols, references, call edges and vector points of
\* file f under revision r
FileView(r, f) ==
    <<FtsOfFile(TheWid, r, f), SymSnapOfFile(TheWid, r, f), PySymbolsOfFile(TheWid, r, f),
      PyRefsOfFile(TheWid, r, f), EdgesOfFile(TheWid, r, f), PointsOfFile(TheWid, r, f)>>

\* the locals of the loop body say the stored FileRecord equalled the file
RecordMatched(c) ==
    /\ c.row # Null
    /\ c.row[1].sha256 = c.file_hash /\ c.row[1].mtime = c.mtime /\ c.row[1].size = c.size

\* the processing of cur.rel has run to its end
FileDone == pc \in {"loop", "idle"} /\ cur.verdict = "changed"

(***************************************************************************)
(* C1: a run performs no insert, update or delete on the lexical rows,     *)
(* symbols, references, call edges or vector points of a file whose        *)
(* digest, mtime and size equal the stored FileRecord: whenever the rows   *)
(* of a file f under a revision r change, the run is processing f under r  *)
(* and found its FileRecord missing or different.                          *)
(***************************************************************************)
C1_UnchangedFileNoWrites ==
    [][\A r \in Revs : \A f \in AllPaths :
          FileView(r, f)' # FileView(r, f)
            => /\ pc # "idle"
               /\ cur'.rel = f /\ run'.git_ref = r
               /\ cur'.verdict = "changed" /\ ~RecordMatched(cur')]_vars

\* a run re-indexed one file and then skipped another as unchanged
C1_Witness ==
    /\ pc = "loop" /\ cur.verdict = "unchanged" /\ RecordMatched(cur)
    /\ run.changed >= 1

(***************************************************************************)
(* C2: after a changed file is re-indexed, the lexical rows, vector points *)
(* and symbol rows stored for (workspace, revision, file) are exactly      *)
(* those derived from the new content.                                     *)
(***************************************************************************)
C2_RowsAreOfNewContent ==
    FileDone =>
      LET wid == run.wid
          r == run.git_ref
          f == cur.rel
          chunks == CurChunked.chunks
          fts == FtsRows(wid, r, chunks)
          sym == SymSnapRows(wid, r, f, CurChunked.symbols)
      IN  /\ \A p \in PointsOfFile(wid, r, f) :
                \E k \in DOMAIN chunks :
                    /\ p.id = point_id(wid, r, chunks[k])
                    /\ p.payload.text = chunks[k].text
                    /\ p.payload.start_line = chunks[k].start_line
                    /\ p.payload.end_line = chunks[k].end_line
          /\ \A k \in DOMAIN chunks :
                \E p \in PointsOfFile(wid, r, f) : p.id = point_id(wid, r, chunks[k])
          /\ \A x \in DOMAIN FtsOfFile(wid, r, f) :
                CopiesIn(x, chunk_fts) = Cardinality({k \in DOMAIN fts : fts[k] = x})
          /\ \A k \in DOMAIN fts : BagIn(fts[k], chunk_fts)
          /\ SymSnapOfFile(wid, r, f) = SeqToSet(sym)
          /\ cur.lang = "python" => PySymbolsOfFile(wid, r, f) = SeqToSet(CurDefRows)

\* a file was re-indexed after it shrank: fewer points than it had before
C2_Witness ==
    /\ FileDone /\ cur.row # Null
    /\ Cardinality(PointsOfFile(run.wid, run.git_ref, cur.rel)) < Cardinality(hist.ids_before)
    /\ PointsOfFile(run.wid, run.git_ref, cur.rel) # {}

(***************************************************************************)
(* C3: when a Python file is re-indexed the call edges originating in its  *)
(* previous version are deleted before the new ones are inserted: once the *)
(* file is processed, the edges originating in it are exactly the edges    *)
(* computed from its current content, none left over and none twice.       *)
(* The code does not behave so (the DELETE reads py_symbols after the      *)
(* file's rows were deleted from it); TLC refutes this statement.          *)
(***************************************************************************)
C3_EdgesReplaced ==
    (FileDone /\ cur.lang = "python") =>
      LET rows == IF CurAnalysis.calls # <<>> /\ CurDefRows # <<>>
                  THEN EdgeRows(run.wid, run.git_ref, CurDefRows, GlobalRows, CurAnalysis.calls)
                  ELSE <<>>
          stored == EdgesOfFile(run.wid, run.git_ref, cur.rel)
      IN  /\ DOMAIN stored = SeqToSet(rows)
          /\ \A e \in DOMAIN stored :
                stored[e] = Cardinality({k \in DOMAIN rows : rows[k] = e})

(***************************************************************************)
(* C4: a concurrent reader of the stores may find a file's rows absent,    *)
(* but never finds rows of two different content versions of the file:     *)
(* in every state, for every file and revision, one content explains all   *)
(* the points, lexical rows, symbols and references stored for the file.   *)
(* The statements of a re-index commit one by one; TLC refutes this.       *)
(***************************************************************************)
ExplainedBy(r, f, c) ==
    LET wid == TheWid
        lang == guess_language(f)
        ch == ChunkFile(f, lang, Content(c))
        an == analyze_python_source(Content(c))
    IN  /\ PointIdsOfFile(points, wid, r, f)
              \subseteq {point_id(wid, r, ch.chunks[k]) : k \in DOMAIN ch.chunks}
        /\ DOMAIN FtsOfFile(wid, r, f) \subseteq SeqToSet(FtsRows(wid, r, ch.chunks))
        /\ SymSnapOfFile(wid, r, f) \subseteq SeqToSet(SymSnapRows(wid, r, f, ch.symbols))
        /\ lang = "python" =>
              /\ PySymbolsOfFile(wid, r, f) \subseteq SeqToSet(DefRows(wid, r, f, an.defs))
              /\ PyRefsOfFile(wid, r, f) \subseteq SeqToSet(RefRows(wid, r, f, an.refs))

C4_NoMixedVersions ==
    \A r \in Revs : \A f \in Files : \E c \in ContentsOf(f) : ExplainedBy(r, f, c)

(***************************************************************************)
(* C5: a run for revision B leaves every row and point stored for another  *)
(* revision A of the same workspace unchanged.                             *)
(***************************************************************************)
RevView(r) ==
    <<{x \in snapshots : x.git_ref = r}, {x \in files_snap : x.git_ref = r},
      {x \in symbols_snap : x.git_ref = r}, {x \in py_symbols : x.git_ref = r},
      {x \in py_refs : x.git_ref = r},
      BagRestrict(py_call_edges, LAMBDA e : e.git_ref = r),
      BagRestrict(chunk_fts, LAMBDA x : x.git_ref = r),
      {p \in points : p.payload.git_ref = r}>>

C5_OtherRevisionUntouched ==
    [][\A r \in Revs : r # run'.git_ref => RevView(r)' = RevView(r)]_vars

\* a file indexed under one revision was indexed again under the other
C5_Witness ==
    /\ FileDone /\ run.git_ref = "c0ffee"
    /\ PointsOfFile(run.wid, "working_tree", cur.rel) # {}
    /\ PointsOfFile(run.wid, "c0ffee", cur.rel) # {}
    /\ \E x \in symbols_snap : x.git_ref = "working_tree"
    /\ \E x \in DOMAIN py_call_edges : x.git_ref = "working_tree"

(***************************************************************************)
(* The resolution policy, read off the stored symbols: the unique symbol   *)
(* of file f named base, else the unique symbol of the snapshot (wid, r)   *)
(* named base, else null.                                                  *)
(***************************************************************************)
PolicyTarget(wid, r, f, base) ==
    LET inFile == {x \in py_symbols : InSnapFile(x, wid, r, f) /\ x.symbol_name = base}
        inSnap == {x \in py_symbols :
                      x.workspace_id = wid /\ x.git_ref = r /\ x.symbol_name = base}
    IN  IF Cardinality(inFile) = 1 THEN (CHOOSE x \in inFile : TRUE).symbol_id
        ELSE IF Cardinality(inSnap) = 1 THEN (CHOOSE x \in inSnap : TRUE).symbol_id
        ELSE Null

(***************************************************************************)
(* C6: the target recorded for a call edge is the unique same-file symbol  *)
(* whose name is the callee's last dotted segment, else the unique symbol  *)
(* of that name in the same (workspace, revision), else null: every edge   *)
(* the insert step adds carries that target, and every call of the file    *)
(* with a known caller has such an edge after the step.                    *)
(***************************************************************************)
C6_EdgeTargetPolicy ==
    [][pc = "py_edges_insert" =>
         /\ \A e \in DOMAIN py_call_edges' :
               CopiesIn(e, py_call_edges') > CopiesIn(e, py_call_edges)
                 => /\ EdgeOfFile(e, run.wid, run.git_ref, cur.rel)
                    /\ e.to_symbol_id =
                         PolicyTarget(run.wid, run.git_ref, cur.rel, LastSegment(e.to_name))
         /\ CurDefRows # <<>> =>
               \A k \in DOMAIN CurAnalysis.calls :
                  LET c == CurAnalysis.calls[k]
                      from_id == QualToId(CurDefRows, c.caller_qualname)
                  IN  from_id # Null =>
                        BagIn([workspace_id |-> run.wid, git_ref |-> run.git_ref,
                               from_symbol_id |-> from_id, to_name |-> c.callee,
                               to_symbol_id |-> PolicyTarget(run.wid, run.git_ref, cur.rel,
                                                             LastSegment(c.callee)),
                               call_line |-> c.line], py_call_edges')]_vars

\* the edges of a file were just inserted and one of them is resolved to the
\* unique symbol of that name defined in another file
C6_Witness ==
    /\ pc = "fts_delete" /\ cur.lang = "python"
    /\ \E e \in DOMAIN py_call_edges :
          /\ EdgeOfFile(e, run.wid, run.git_ref, cur.rel)
          /\ e.to_symbol_id # Null
          /\ e.to_symbol_id[4] # cur.rel

(***************************************************************************)
(* C7: after an indexing run completes, every stored call edge of the      *)
(* run's snapshot has exactly the target the resolution policy yields      *)
(* against the symbols stored at that moment, whatever the order in which  *)
(* the files were processed.  Edges are resolved only while their own file *)
(* is re-indexed; TLC refutes this statement.                              *)
(***************************************************************************)
C7_EdgesResolvedAtCompletion ==
    (pc = "idle" /\ result # Null) =>
      \A e \in DOMAIN py_call_edges : \A x \in py_symbols :
         (e.workspace_id = run.wid /\ e.git_ref = run.git_ref
            /\ x.symbol_id = e.from_symbol_id)
           => e.to_symbol_id =
                PolicyTarget(run.wid, run.git_ref, x.file_path, LastSegment(e.to_name))

(***************************************************************************)
(* C8: an index_repo run that immediately follows a completed index_repo   *)
(* run, over the unmodified tree at the same revision, classifies every    *)
(* file as unchanged, reports files_changed = 0 and leaves the file,       *)
(* chunk, symbol, reference and edge rows and the vector points unchanged. *)
(* hist.rerun marks such a run, from its start until the next run starts.  *)
(***************************************************************************)
C8_RerunIsNoOp ==
    /\ [](hist.rerun =>
            /\ pc \in {"loop", "idle"}
            /\ cur.verdict \in {None, "unchanged"}
            /\ run.changed = 0
            /\ pc = "idle" => /\ result[1].changed = 0
                              /\ result[1].total = Cardinality(Files))
    /\ [][hist'.rerun => StoreView' = StoreView]_vars

\* such a second run has returned, having looked at every file
C8_Witness ==
    /\ pc = "idle" /\ hist.rerun
    /\ run.processed = Cardinality(Files)
    /\ \A f \in Files : PointsOfFile(run.wid, run.git_ref, f) # {}

(***************************************************************************)
(* C9: point ids depend only on (workspace, revision, path, start line,    *)
(* end line, text digest): once the points of a re-indexed file whose      *)
(* content digest equals the stored one are upserted, the file has exactly *)
(* the point ids it had before, and the store never holds two points for   *)
(* the same chunk.                                                         *)
(***************************************************************************)
SameChunkKey(p, q) ==
    /\ p.payload.workspace_id = q.payload.workspace_id
    /\ p.payload.git_ref = q.payload.git_ref
    /\ p.payload.file_path = q.payload.file_path
    /\ p.payload.start_line = q.payload.start_line
    /\ p.payload.end_line = q.payload.end_line
    /\ p.payload.chunk_sha256 = q.payload.chunk_sha256

PastUpsert == pc \notin {"vec_delete", "vec_upsert"} /\ cur.verdict = "changed"

C9_PointIdsStable ==
    /\ (PastUpsert /\ cur.row # Null /\ cur.row[1].sha256 = cur.file_hash)
          => PointIdsOfFile(points, run.wid, run.git_ref, cur.rel) = hist.ids_before
    /\ \A p \in points : \A q \in points :
          /\ SameChunkKey(p, q) => p = q
          /\ p.id = q.id => SameChunkKey(p, q)

\* a file whose mtime alone changed was re-indexed
C9_Witness ==
    /\ PastUpsert /\ pc = "loop"
    /\ cur.row # Null /\ cur.row[1].sha256 = cur.file_hash
    /\ cur.row[1].mtime # cur.mtime
    /\ hist.ids_before # {}

(***************************************************************************)
(* C10: after a file is indexed the vector index holds one point per chunk *)
(* emitted for it: the number of points stored for (workspace, revision,   *)
(* file) equals the number of chunks, which equals the number of lexical   *)
(* rows stored for the file.  Two chunks of a file can have the same line  *)
(* range and text, hence the same point id; TLC refutes this statement.    *)
(***************************************************************************)
C10_OnePointPerChunk ==
    FileDone =>
      /\ Cardinality(PointsOfFile(run.wid, run.git_ref, cur.rel)) = Len(CurChunked.chunks)
      /\ Len(CurChunked.chunks) = BagCardinality(FtsOfFile(run.wid, run.git_ref, cur.rel))

(***************************************************************************)
(* jobs.py: the JobManager.  A runner is any callable; here it reports     *)
(* progress through the callback and then returns a summary or raises.     *)
(* wrapped() runs on a thread of the executor, index_status on the thread  *)
(* of its caller: each statement that touches the jobs table or a Future   *)
(* is a step.                                                              *)
(***************************************************************************)
\* a runner: a stub that returns or raises, or index_paths on rel_paths
RunnerKinds == {"returns", "raises"}
StubRunner(kind) == [kind |-> kind, rel_paths |-> <<>>]
PathsRunner(rel_paths) == [kind |-> "index_paths", rel_paths |-> rel_paths]
RunnerSummary == [files_total |-> 1, files_changed |-> 1]
RunnerError == "RuntimeError('boom')"

\* the row create_job inserts
NewJobRow(job_id, workspace_id, message) ==
    [job_id |-> job_id, workspace_id |-> workspace_id, state |-> "running",
     progress |-> 0, processed_files |-> 0, total_files |-> 0, message |-> message,
     started_at |-> "now", finished_at |-> None, error |-> None]

\* self._executor.submit(wrapped): the work item joins the executor's queue
submit_when_free(queue, job_id) == IF queue = <<>> THEN <<job_id>> ELSE queue
submit(queue, job_id) == Append(queue, job_id)

\* create_job: the INSERT, then executor.submit(wrapped) under the lock
create_job(workspace_id, runner, message) ==
    LET job_id == Len(jobs) + 1
    IN  /\ jobs' = Append(jobs, NewJobRow(job_id, workspace_id, message))
        /\ runners' = Append(runners, runner)
        /\ futures' = Append(futures, [done |-> FALSE, outcome |-> None, value |-> Null])
        /\ work_queue' = submit(work_queue, job_id)

Submit(runner) ==
    /\ Len(jobs) < MaxJobs
    /\ create_job(workspace_id_for(RepoRoot), StubRunner(runner), "index_init")
    /\ UNCHANGED <<workers, poll, indexVars, toolVars>>

\* a thread of the executor takes the next work item and calls wrapped()
WorkerTake(w) ==
    /\ workers[w].pc = "idle"
    /\ work_queue # <<>>
    /\ workers' = [workers EXCEPT ![w] = [pc |-> "running", job |-> Head(work_queue)]]
    /\ work_queue' = Tail(work_queue)
    /\ IF runners[Head(work_queue)].kind = "index_paths"
       THEN BeginRun("paths", runners[Head(work_queue)].rel_paths)
       ELSE UNCHANGED indexVars
    /\ UNCHANGED <<jobs, futures, runners, poll, toolVars>>

\* the job_id of the closure cb: the job whose wrapped() the thread is running
CallbackJob_first(w) == 1
CallbackJob(w) == workers[w].job

\* cb(progress, processed, total, msg): UPDATE jobs SET progress=?, ...
RunnerCallback(w) ==
    /\ workers[w].pc = "running"
    /\ jobs[workers[w].job].processed_files < RunnerSummary.files_total
    /\ jobs' = [jobs EXCEPT ![CallbackJob(w)] =
                   [@ EXCEPT !.progress = 1, !.processed_files = 1, !.total_files = 1,
                             !.message = "Indexed"]]
    /\ UNCHANGED <<work_queue, futures, workers, runners, poll, indexVars, toolVars>>

\* result = runner(cb)
RunnerReturn(w) ==
    /\ workers[w].pc = "running"
    /\ \/ runners[workers[w].job].kind = "returns"
       \/ runners[workers[w].job].kind = "index_paths" /\ pc = "idle"
    /\ workers' = [workers EXCEPT ![w].pc = "returned"]
    /\ UNCHANGED <<jobs, work_queue, futures, runners, poll, indexVars, toolVars>>

\* runner(cb) raises: except Exception as e
RunnerRaise(w) ==
    /\ workers[w].pc = "running"
    /\ \/ runners[workers[w].job].kind = "raises"
       \/ runners[workers[w].job].kind = "index_paths" /\ pc = "raised"
    /\ workers' = [workers EXCEPT ![w].pc = "raised"]
    /\ UNCHANGED <<jobs, work_queue, futures, runners, poll, indexVars, toolVars>>

\* UPDATE jobs SET state='finished', progress=1.0, message='done', finished_at=?
MarkFinished(w) ==
    /\ workers[w].pc = "returned"
    /\ jobs' = [jobs EXCEPT ![workers[w].job] =
                   [@ EXCEPT !.state = "finished", !.progress = 1, !.message = "done",
                             !.finished_at = "now"]]
    /\ workers' = [workers EXCEPT ![w].pc = "marked_finished"]
    /\ UNCHANGED <<work_queue, futures, runners, poll, indexVars, toolVars>>

\* UPDATE jobs SET state='failed', error=repr(e), message='failed', finished_at=?
MarkFailed(w) ==
    /\ workers[w].pc = "raised"
    /\ jobs' = [jobs EXCEPT ![workers[w].job] =
                   [@ EXCEPT !.state = "failed", !.error = RunnerError,
                             !.message = "failed", !.finished_at = "now"]]
    /\ workers' = [workers EXCEPT ![w].pc = "marked_failed"]
    /\ UNCHANGED <<work_queue, futures, runners, poll, indexVars, toolVars>>

\* what the executor's thread does once the work item ended: the exception of
\* a work item is stored in its Future and the thread goes back to the queue
WorkerAfter_dies(outcome) == IF outcome = "exception" THEN "dead" ELSE "idle"

WorkerAfter(outcome) == "idle"

\* `return result` / `raise`: wrapped() ends and the executor completes the Future
FutureSet(w) ==
    /\ workers[w].pc \in {"marked_finished", "marked_failed"}
    /\ LET outcome == IF workers[w].pc = "marked_finished" THEN "result" ELSE "exception"
       IN  /\ futures' = [futures EXCEPT ![workers[w].job] =
                             [done |-> TRUE, outcome |-> outcome,
                              value |-> IF outcome = "exception" THEN <<RunnerError>>
                                        ELSE IF runners[workers[w].job].kind = "index_paths"
                                        THEN result
                                        ELSE <<RunnerSummary>>]]
           /\ workers' = [workers EXCEPT ![w] = [pc |-> WorkerAfter(outcome), job |-> 0]]
    /\ UNCHANGED <<jobs, work_queue, runners, poll, indexVars, toolVars>>

\* JobManager.status: fetch_one(SELECT * FROM jobs WHERE job_id=?)
status(job_id) == IF job_id \in DOMAIN jobs THEN <<jobs[job_id]>> ELSE Null

\* JobManager.result_if_done
result_if_done(job_id) ==
    IF job_id \in DOMAIN futures /\ futures[job_id].done
          /\ futures[job_id].outcome = "result"
    THEN futures[job_id].value
    ELSE Null

\* index_status, up to `if not row: return {"error": "job not found"}`
PollStatus(job_id) ==
    /\ poll.pc = "idle"
    /\ LET row == status(job_id)
       IN  poll' = IF row = Null
                   THEN [pc |-> "idle", job_id |-> job_id, row |-> Null,
                         response |-> <<[error |-> "job not found"]>>]
                   ELSE [pc |-> "got_row", job_id |-> job_id, row |-> row,
                         response |-> Null]
    /\ UNCHANGED <<jobs, work_queue, futures, workers, runners, indexVars, toolVars>>

\* index_status, the rest: the result is added to the row when there is one
PollResult ==
    /\ poll.pc = "got_row"
    /\ LET res == result_if_done(poll.job_id)
       IN  poll' = [poll EXCEPT !.pc = "idle",
                               !.response = IF res # Null
                                            THEN <<[result |-> res[1]] @@ poll.row[1]>>
                                            ELSE poll.row]
    /\ UNCHANGED <<jobs, work_queue, futures, workers, runners, indexVars, toolVars>>

JobNext ==
    \/ \E runner \in RunnerKinds : Submit(runner)
    \/ \E w \in Workers : WorkerTake(w)
    \/ \E w \in Workers : RunnerCallback(w)
    \/ \E w \in Workers : RunnerReturn(w)
    \/ \E w \in Workers : RunnerRaise(w)
    \/ \E w \in Workers : MarkFinished(w)
    \/ \E w \in Workers : MarkFailed(w)
    \/ \E w \in Workers : FutureSet(w)
    \/ \E job_id \in 1..MaxJobs : PollStatus(job_id)
    \/ PollResult

JobSpec == Init /\ [][JobNext]_vars

\* the executor's threads keep running
WorkerStep ==
    \E w \in Workers :
        \/ WorkerTake(w) \/ RunnerReturn(w) \/ RunnerRaise(w)
        \/ MarkFinished(w) \/ MarkFailed(w) \/ FutureSet(w)

JobFairSpec == JobSpec /\ WF_vars(WorkerStep)

(***************************************************************************)
(* C11: at any moment at most one job runner submitted through the         *)
(* JobManager is executing, and a job does not start while another is      *)
(* executing: wrapped() of a job is entered only when no thread of the     *)
(* executor is inside wrapped().                                           *)
(***************************************************************************)
Executing(w) == workers[w].pc \notin {"idle", "dead"}

C11_OneRunnerAtATime ==
    /\ [](Cardinality({w \in Workers : Executing(w)}) <= 1)
    /\ [][\A w \in Workers :
            (~Executing(w) /\ Executing(w)') => \A v \in Workers : ~Executing(v)]_vars

\* a job is executing while two others wait in the queue
C11_Witness ==
    /\ \E w \in Workers : workers[w].pc = "running"
    /\ Len(work_queue) >= 2

(***************************************************************************)
(* C12: a polled job status is one of queued, running, finished, failed;   *)
(* a job submitted whose runner has not started yet is reported as queued, *)
(* so at most one job record is in state running.  create_job inserts the  *)
(* row in state running; TLC refutes this statement.                       *)
(***************************************************************************)
C12_QueuedUntilStarted ==
    /\ \A j \in DOMAIN jobs :
          /\ status(j)[1].state \in {"queued", "running", "finished", "failed"}
          /\ j \in SeqToSet(work_queue) => status(j)[1].state = "queued"
    /\ Cardinality({j \in DOMAIN jobs : status(j)[1].state = "running"}) <= 1

(***************************************************************************)
(* C13: whenever index_status observes state finished for a job, the       *)
(* job's result summary is in that same response, under every interleaving *)
(* with the worker thread.  The row is marked finished before the Future   *)
(* completes; TLC refutes this statement.                                  *)
(***************************************************************************)
C13_FinishedHasResult ==
    (poll.pc = "idle" /\ poll.response # Null /\ "state" \in DOMAIN poll.response[1])
      => (poll.response[1].state = "finished" => "result" \in DOMAIN poll.response[1])

(***************************************************************************)
(* C14: if a job's runner raises, the job record ends in state failed with *)
(* a non-empty error message and stays queryable; the exception does not   *)
(* stop the worker: every submitted job reaches its own terminal state,    *)
(* failed if its runner raised and finished if it returned.                *)
(***************************************************************************)
C14_FailureIsContained ==
    /\ [](\A j \in DOMAIN jobs :
            /\ futures[j].done =>
                 status(j)[1].state = IF runners[j].kind = "raises" THEN "failed" ELSE "finished"
            /\ status(j)[1].state = "failed" =>
                 /\ runners[j].kind = "raises"
                 /\ status(j)[1].error \notin {None, ""}
            /\ status(j)[1].state = "finished" => runners[j].kind = "returns")
    /\ [][\A j \in DOMAIN jobs : jobs[j].state = "failed" => jobs'[j] = jobs[j]]_vars
    /\ \A j \in 1..MaxJobs :
          (j \in DOMAIN jobs) ~> (j \in DOMAIN futures /\ futures[j].done)

\* a job failed, and jobs submitted before and after it finished
C14_Witness ==
    /\ Len(jobs) >= 3
    /\ jobs[1].state = "finished" /\ jobs[2].state = "failed" /\ jobs[3].state = "finished"
    /\ futures[3].done

(***************************************************************************)
(* C15: a file that cannot be stat-ed, opened or read when it is processed *)
(* is skipped by index_repo and index_paths: the run goes on and returns   *)
(* its summary; no run ends by raising on such a file.  stat is guarded,   *)
(* sha256_file and safe_read_text are not; TLC refutes this statement.     *)
(***************************************************************************)
C15_FaultyFileSkipped ==
    /\ pc # "raised"
    /\ (cur.rel \in DOMAIN tree /\ tree[cur.rel].mode # "ok" /\ pc = "loop"
          /\ cur.verdict # "changed" /\ cur.verdict # "unchanged")
         => cur.verdict = "missing"

\* ---------------------------------------------------------------------------
\* The tools of the server that take workspace-relative paths
\* ---------------------------------------------------------------------------

\* the rel_paths arguments of index_refresh
RawPathLists ==
    {<<"a.py">>, <<"./a.py">>, <<"/b.py">>, <<"../x.py", "docs/n.md">>,
     <<"docs/../../x.py">>, <<"docs/../b.py">>}

\* the file_path arguments of codebase_fetch
FetchPaths == {"a.py", "gone.py", "/b.py", "../x.py", "docs/../../x.py"}

\* normalize_rel_file: the resolved path, or the error it raises
normalize_rel_file(file_path) ==
    LET p == PathParts(file_path)
        resolved == resolve(p)
    IN IF p.abs THEN "PathAccessError"
       ELSE IF ~IsUnderRoot(resolved) THEN "PathAccessError"
       ELSE PathString([abs |-> FALSE,
                        segs |-> SubSeq(resolved, Len(RootSegs) + 1, Len(resolved))])

\* p.strip().lstrip("/") of index_refresh (no argument here has white space)
lstrip_slash(p) == PathString([PathParts(p) EXCEPT !.abs = FALSE])

\* the list clean of index_refresh: empty and ".."-prefixed paths are dropped
RECURSIVE CleanPaths(_)
CleanPaths(rel_paths) ==
    IF rel_paths = <<>> THEN <<>>
    ELSE LET p == lstrip_slash(Head(rel_paths))
             rest == CleanPaths(Tail(rel_paths))
         IN IF PathParts(p).segs = <<>> \/ Head(PathParts(p).segs) = ".."
            THEN rest
            ELSE <<p>> \o rest

\* the record of a tool call: its number, the tool, its paths and its outcome
ToolCalls == IF reply = Null THEN 0 ELSE reply[1].n

ToolReply(tool, paths, outcome) ==
    <<[n |-> ToolCalls + 1,
       tool |-> tool, paths |-> paths, outcome |-> outcome]>>

\* the tool index_refresh
IndexRefresh(rel_paths) ==
    /\ Len(jobs) < MaxRuns
    /\ create_job(workspace_id_for(RepoRoot), PathsRunner(CleanPaths(rel_paths)),
                  "index_refresh")
    /\ reply' = ToolReply("index_refresh", rel_paths, "job")
    /\ UNCHANGED <<workers, poll, indexVars, cg, hs, ck>>

\* the tool codebase_fetch
CodebaseFetch(file_path) ==
    /\ LET abs_path == normalize_rel_file(file_path)
       IN reply' = ToolReply("codebase_fetch", <<file_path>>,
                       IF abs_path = "PathAccessError" THEN "PathAccessError"
                       ELSE IF abs_path \notin DOMAIN tree \/ tree[abs_path].mode # "ok"
                       THEN "OSError"
                       ELSE "text")
    /\ ToolCalls < MaxCalls
    /\ UNCHANGED <<jobVars, indexVars, cg, hs, ck>>

\* the statements of a running index_paths
PipelineStep ==
    \/ Scan
    \/ VecDelete
    \/ VecUpsert
    \/ PySymbolsDelete
    \/ PyRefsDelete
    \/ PyEdgesDelete
    \/ PySymbolsInsert
    \/ PyRefsInsert
    \/ PyEdgesInsert
    \/ FtsDelete
    \/ FtsInsert
    \/ FilesSnapUpsert
    \/ SymbolsSnapDelete
    \/ SymbolsSnapInsert
    \/ Return

ServerNext ==
    \/ \E rel_paths \in RawPathLists : IndexRefresh(rel_paths)
    \/ \E file_path \in FetchPaths : CodebaseFetch(file_path)
    \/ \E w \in Workers : WorkerTake(w)
    \/ \E w \in Workers : RunnerCallback(w)
    \/ PipelineStep
    \/ \E w \in Workers : RunnerReturn(w)
    \/ \E w \in Workers : MarkFinished(w)
    \/ \E w \in Workers : FutureSet(w)

ServerSpec == Init /\ [][ServerNext]_vars

\* ---------------------------------------------------------------------------
\* C16, C17: workspace-relative paths
\* ---------------------------------------------------------------------------

\* a path that is absolute or that resolves outside repo_root
EscapesRoot(p) == PathParts(p).abs \/ ~IsUnderRoot(resolve(PathParts(p)))

\* C16: a call of a tool that takes workspace-relative paths (codebase_fetch,
\* index_refresh) with an absolute path or a path resolving outside the
\* workspace root raises PathAccessError, and writes no job row and no
\* workspace, snapshot or index row.
C16_EscapingPathRefused ==
    [][(ToolCalls' = ToolCalls + 1
        /\ \E k \in DOMAIN reply'[1].paths : EscapesRoot(reply'[1].paths[k]))
       => /\ reply'[1].outcome = "PathAccessError"
          /\ UNCHANGED <<jobs, work_queue, sqlVars, points>>]_vars

\* the file_path values stored for a workspace and revision
StoredPaths(wid, ref) ==
    {x.file_path : x \in {y \in files_snap : y.workspace_id = wid /\ y.git_ref = ref}}

\* C17: every stored file_path is the normalized workspace-relative path of
\* its file, so a file on disk has at most one FileRecord per workspace and
\* revision, whether index_repo or index_paths indexed it.
C17_OneRecordPerDiskFile ==
    /\ \A x \in files_snap : DiskFile(x.file_path) = x.file_path
    /\ \A x \in files_snap : \A y \in files_snap :
           (x.workspace_id = y.workspace_id /\ x.git_ref = y.git_ref
            /\ DiskFile(x.file_path) = DiskFile(y.file_path)) => x = y

\* ---------------------------------------------------------------------------
\* C18: symbol_find
\* ---------------------------------------------------------------------------

\* the table symbols of the schema: no statement of the program writes it
symbols == {}

\* the default of the parameter limit of symbol_find
DefaultLimit == 50

\* value LIKE '%name%', on the one-character names of the sources
Like(value, name) == name = "" \/ name = value

\* the rows of a SELECT without ORDER BY, in the order the table yields them
RECURSIVE fetch_all(_)
fetch_all(rows) ==
    IF rows = {} THEN <<>>
    ELSE LET r == CHOOSE x \in rows : TRUE
         IN  <<r>> \o fetch_all(rows \ {r})

\* SearchEngine.symbol_find, the definition in force (the later one of the class)
symbol_find(repo_root, name, language, limit) ==
    IF language # None /\ language # "python" THEN <<>>
    ELSE LET rows == fetch_all({x \in symbols :
                         /\ x.workspace_id = workspace_id_for(repo_root)
                         /\ Like(x.symbol_name, name)})
         IN  SubSeq(rows, 1, Min(Len(rows), limit))

\* ORDER BY file_path, start_line: the rows of one path ascend by start line
OrderedByPathThenLine(rows) ==
    \A a \in DOMAIN rows : \A b \in DOMAIN rows :
        (a < b /\ rows[a].file_path = rows[b].file_path)
            => rows[a].start_line <= rows[b].start_line

\* C18: once a file that defines a top-level function or class N is indexed,
\* symbol_find with a substring of N returns a row for that symbol (its file,
\* name and start line), and the rows are ordered by path, then start line.
C18_IndexedSymbolFound ==
    (FileDone /\ cur.lang = "python") =>
        \A k \in DOMAIN CurChunked.symbols :
            \A name \in {"", CurChunked.symbols[k][1]} :
                LET rows == symbol_find(RepoRoot, name, "python", DefaultLimit)
                IN  /\ \E a \in DOMAIN rows :
                           /\ rows[a].file_path = cur.rel
                           /\ rows[a].symbol_name = CurChunked.symbols[k][1]
                           /\ rows[a].start_line = CurChunked.symbols[k][3]
                    /\ OrderedByPathThenLine(rows)

\* ---------------------------------------------------------------------------
\* search.py: py_callgraph, hop by hop, over the stored py_symbols and
\* py_call_edges
\* ---------------------------------------------------------------------------

\* the largest depth asked for
MaxDepth == 3

\* the default of the parameter limit_per_hop
limit_per_hop == 50

\* the functions of an indexed file a.py, and the names they may call
\* ("u" is defined nowhere)
CgFunctions == <<"f", "g", "k">>
CgCallees == {"f", "g", "k", "u"}

\* the definitions analyze_python_source reports for a.py
CgDefs == [i \in DOMAIN CgFunctions |->
              PyDef(CgFunctions[i], <<CgFunctions[i]>>, "function", 2 * i - 1, 2 * i)]

\* the calls it reports when function i calls callee[i] (None: it calls nothing)
RECURSIVE CgCalls(_, _)
CgCalls(callee, i) ==
    IF i > Len(CgFunctions) THEN <<>>
    ELSE (IF callee[i] = None THEN <<>>
          ELSE <<PyCall(<<CgFunctions[i]>>, <<callee[i]>>, 2 * i)>>)
         \o CgCalls(callee, i + 1)

\* the rows the indexer stores for them
CgDefRows(git_ref) == DefRows(TheWid, git_ref, "a.py", CgDefs)
CgSymbolId(git_ref, i) == CgDefRows(git_ref)[i].symbol_id

\* a database in which a content of a.py with these functions was indexed
\* under the working tree
CallgraphInit ==
    /\ BaseInit /\ JobInit /\ ToolInit
    /\ workspaces = InsertWorkspace({}, TheWid, RepoRoot, 1)
    /\ snapshots = ReplaceSnapshot({}, TheWid, "working_tree", 1)
    /\ py_symbols = InsertOrReplaceSymbols({}, CgDefRows("working_tree"), 1)
    /\ \E callee \in [DOMAIN CgFunctions -> CgCallees \cup {None}] :
           py_call_edges =
               InsertOrReplaceEdges(EmptyBag,
                   EdgeRows(TheWid, "working_tree", CgDefRows("working_tree"),
                            SeqToSet(CgDefRows("working_tree")), CgCalls(callee, 1)), 1)

\* fetch_all of a SELECT ... LIMIT n on a table that is a bag of rows
Limit(rows, n) ==
    IF BagCardinality(rows) <= n THEN rows
    ELSE CHOOSE b \in SubBag(rows) : BagCardinality(b) = n

\* SELECT git_ref FROM py_symbols WHERE symbol_id=? AND workspace_id=? LIMIT 1
GitRefOfSymbol(symbol_id, wid) ==
    LET r0 == {r \in py_symbols : r.symbol_id = symbol_id /\ r.workspace_id = wid}
    IN  IF r0 = {} THEN None ELSE (CHOOSE r \in r0 : TRUE).git_ref

\* add_node: nodes is the set of the entries [sid, row] of the dict
Visited(nodes) == {n.sid : n \in nodes}

add_node(nodes, sid, wid, git_ref) ==
    IF sid \in Visited(nodes) THEN nodes
    ELSE LET r == {x \in py_symbols :
                      x.symbol_id = sid /\ x.workspace_id = wid /\ x.git_ref = git_ref}
         IN  nodes \cup {[sid |-> sid,
                          row |-> IF r = {} THEN [symbol_id |-> sid, missing |-> TRUE]
                                  ELSE CHOOSE x \in r : TRUE]}

RECURSIVE AddNodes(_, _, _, _)
AddNodes(nodes, sids, wid, git_ref) ==
    IF sids = {} THEN nodes
    ELSE LET sid == CHOOSE x \in sids : TRUE
         IN  AddNodes(add_node(nodes, sid, wid, git_ref), sids \ {sid}, wid, git_ref)

\* out_rows and in_rows of a frontier symbol
OutRows(c, wid, sid) ==
    IF c.direction \in {"out", "both"}
    THEN Limit(BagRestrict(py_call_edges,
                   LAMBDA e : e.workspace_id = wid /\ e.git_ref = c.git_ref
                              /\ e.from_symbol_id = sid), limit_per_hop)
    ELSE EmptyBag

InRows(c, wid, sid) ==
    IF c.direction \in {"in", "both"}
    THEN Limit(BagRestrict(py_call_edges,
                   LAMBDA e : e.workspace_id = wid /\ e.git_ref = c.git_ref
                              /\ e.to_symbol_id = sid), limit_per_hop)
    ELSE EmptyBag

\* the dicts appended to edges for the rows of a frontier symbol
OutEdge(r, sid) ==
    [from |-> sid, to |-> IF r.to_symbol_id # Null THEN r.to_symbol_id ELSE r.to_name,
     to_symbol_id |-> r.to_symbol_id, to_name |-> r.to_name, call_line |-> r.call_line]

InEdge(r, sid) ==
    [from |-> r.from_symbol_id, to |-> sid, to_symbol_id |-> sid, to_name |-> r.to_name,
     call_line |-> r.call_line]

EdgesOf(rows, sid, E(_, _)) ==
    [e \in {E(r, sid) : r \in DOMAIN rows} |->
        rows[CHOOSE r \in DOMAIN rows : E(r, sid) = e]]

\* the body of `for sid in list(frontier)`, for one sid: acc holds nodes, edges
\* (the list, as the bag of its entries) and new_frontier
ExpandSymbol(c, wid, sid, acc) ==
    LET out_rows == OutRows(c, wid, sid)
        in_rows == InRows(c, wid, sid)
        to_ids == {r.to_symbol_id : r \in DOMAIN out_rows} \ {Null}
        frm_ids == {r.from_symbol_id : r \in DOMAIN in_rows} \ {Null}
    IN  [nodes |-> AddNodes(acc.nodes, to_ids \cup frm_ids, wid, c.git_ref),
         edges |-> acc.edges (+) EdgesOf(out_rows, sid, OutEdge)
                             (+) EdgesOf(in_rows, sid, InEdge),
         new_frontier |-> acc.new_frontier \cup to_ids \cup frm_ids]

RECURSIVE ExpandFrontier(_, _, _, _)
ExpandFrontier(c, wid, todo, acc) ==
    IF todo = {} THEN acc
    ELSE LET sid == CHOOSE x \in todo : TRUE
         IN  ExpandFrontier(c, wid, todo \ {sid}, ExpandSymbol(c, wid, sid, acc))

\* range(depth) with depth = max(1, int(depth)): a loop one iteration longer
LoopCount_extra(depth) == Max(1, depth) + 1

\* range(depth) with depth = max(1, int(depth)): the iterations of the loop
LoopCount(depth) == Max(1, depth)

\* py_callgraph up to its loop
PyCallgraph(symbol_id, depth, direction, git_ref) ==
    /\ cg.pc = "idle"
    /\ LET wid == workspace_id_for(RepoRoot)
           ref == IF git_ref = None THEN GitRefOfSymbol(symbol_id, wid) ELSE git_ref
       IN  cg' = IF ref = None
                 THEN [NoCall EXCEPT !.pc = "returned", !.symbol_id = symbol_id,
                                     !.depth = depth, !.direction = direction,
                                     !.error = "git_ref not found for symbol_id"]
                 ELSE [pc |-> "loop", symbol_id |-> symbol_id, depth |-> depth,
                       direction |-> direction, git_ref |-> ref, hops |-> 0,
                       nodes |-> add_node({}, symbol_id, wid, ref), edges |-> EmptyBag,
                       frontier |-> {symbol_id}, error |-> None]
    /\ UNCHANGED <<indexVars, jobVars, reply, hs, ck>>

\* one iteration of `for _ in range(depth)`
CgHop ==
    /\ cg.pc = "loop"
    /\ cg.hops < LoopCount(cg.depth)
    /\ LET acc == ExpandFrontier(cg, workspace_id_for(RepoRoot), cg.frontier,
                      [nodes |-> cg.nodes, edges |-> cg.edges, new_frontier |-> {}])
       IN  cg' = [cg EXCEPT !.hops = @ + 1, !.nodes = acc.nodes, !.edges = acc.edges,
                            !.frontier = acc.new_frontier,
                            !.pc = IF acc.new_frontier = {} THEN "break" ELSE "loop"]
    /\ UNCHANGED <<indexVars, jobVars, reply, hs, ck>>

\* the loop is left (range exhausted, or break): return {nodes, edges, git_ref}
CgReturn ==
    /\ \/ cg.pc = "loop" /\ cg.hops >= LoopCount(cg.depth)
       \/ cg.pc = "break"
    /\ cg' = [cg EXCEPT !.pc = "returned"]
    /\ UNCHANGED <<indexVars, jobVars, reply, hs, ck>>

\* the symbol ids, depths, directions and git_ref arguments of the calls
CgSymbolIds ==
    {CgSymbolId("working_tree", i) : i \in DOMAIN CgFunctions}
        \cup {CgSymbolId("c0ffee", 1)}
CgDirections == {"out", "in", "both"}

CallgraphNext ==
    \/ \E symbol_id \in CgSymbolIds : \E depth \in 0..MaxDepth :
           \E direction \in CgDirections : \E git_ref \in {None, "working_tree"} :
               PyCallgraph(symbol_id, depth, direction, git_ref)
    \/ CgHop
    \/ CgReturn

CallgraphSpec == CallgraphInit /\ [][CallgraphNext]_vars

\* a call that was made runs on
CallgraphFairSpec == CallgraphSpec /\ WF_vars(CgHop \/ CgReturn)

\* C19: a symbol id that is already visited is never placed in a later
\* frontier: the frontier a hop produces holds no id that was in nodes
\* before the hop, so each symbol is expanded in at most one hop.
C19_VisitedNeverInFrontier ==
    [][cg.pc = "loop" /\ cg'.hops = cg.hops + 1
          => cg'.frontier \cap Visited(cg.nodes) = {}]_vars

\* C20: for every depth >= 1, direction and stored edge set, py_callgraph
\* performs at most depth hops, performs no hop on an empty frontier (it
\* stops as soon as a hop produced one), and the call returns.
C20_BoundedHopsAndTermination ==
    /\ [](cg.depth >= 1 => cg.hops <= cg.depth)
    /\ [][cg.frontier = {} => cg'.hops = cg.hops]_vars
    /\ (cg.pc = "loop" /\ cg.depth >= 1) ~> (cg.pc = "returned")

\* a traversal of a cyclic graph that ran its full depth and returned with a
\* frontier that still holds a visited symbol
C20_Witness ==
    /\ cg.pc = "returned" /\ cg.depth >= 2 /\ cg.hops = cg.depth
    /\ cg.symbol_id \in cg.frontier

\* ---------------------------------------------------------------------------
\* search.py: hybrid_search.  A Python float is a binary floating-point
\* number: every operation rounds its exact result to the nearest value of the
\* format, ties to even.  The model keeps MantissaBits bits of mantissa; a
\* finite float is the integer n that stands for n / One, and a float that may
\* be NaN is [nan, n].
\* ---------------------------------------------------------------------------

\* bits of mantissa of a float
MantissaBits == 3

\* the float 1.0
One == 2 ^ (MantissaBits + 5)

\* the position of the leading bit of n > 0
RECURSIVE TopBit(_)
TopBit(n) == IF n < 2 THEN 0 ELSE 1 + TopBit(n \div 2)

\* the float nearest to the integer n >= 0, ties to even
RoundToFloat(n) ==
    IF n = 0 THEN 0
    ELSE LET sh == TopBit(n) - MantissaBits + 1
         IN  IF sh <= 0 THEN n
             ELSE LET u == 2 ^ sh
                      f == n \div u
                      r == n % u
                  IN  IF 2 * r > u \/ (2 * r = u /\ f % 2 = 1) THEN (f + 1) * u
                      ELSE f * u

\* x + y, x - y and x * y on floats 0 <= y <= x
FAdd(x, y) == RoundToFloat(x + y)
FSub(x, y) == RoundToFloat(x - y)
FMul(x, y) == RoundToFloat(x * y) \div One

\* the float m / 2^k
Fl(m, k) == (m * One) \div (2 ^ k)
NaN == [nan |-> TRUE, n |-> 0]
Num(n) == [nan |-> FALSE, n |-> n]

\* clamp01 of hybrid_search
clamp01(x) == IF x.nan THEN 0 ELSE Max(0, Min(One, x.n))

\* alpha = max(0.0, min(1.0, float(alpha))): min(1.0, nan) is 1.0
ClampAlpha(alpha) == IF alpha.nan THEN One ELSE Max(0, Min(One, alpha.n))

\* c["_hybrid"] = alpha * _sem + beta * _lex, with beta = 1.0 - alpha
Hybrid(alpha, sem, lex) ==
    LET a == ClampAlpha(alpha)
        beta == FSub(One, a)
    IN  FAdd(FMul(a, sem), FMul(beta, lex))

\* the sequences of at most two elements of S
UpToTwo(S) == {<<>>} \cup {<<x>> : x \in S} \cup {<<x, y>> : x \in S, y \in S}

\* the locations of two indexed chunks
HitKeys == {[git_ref |-> "working_tree", file_path |-> "a.py", start_line |-> 1, end_line |-> 2],
            [git_ref |-> "working_tree", file_path |-> "b.py", start_line |-> 1, end_line |-> 2]}

\* a hit as semantic_search and lexical_search build it; the payload of the
\* point of b.py holds no text
Hit(k, score, text, source) ==
    [score |-> score, git_ref |-> k.git_ref, file_path |-> k.file_path,
     start_line |-> k.start_line, end_line |-> k.end_line, preview |-> text,
     text |-> text, source |-> source]

\* the scores the vector store reports, and the scores 1 / (1 + bm25)
SemScores == {NaN, Num(0 - Fl(1, 2)), Num(Fl(5, 5)), Num(Fl(3, 1))}
LexScores == {Num(Fl(5, 5)), Num(One)}

SemHits ==
    {Hit(k, x, IF k.file_path = "b.py" THEN "" ELSE "payload text", "semantic") :
        k \in HitKeys, x \in SemScores}
LexHits == {Hit(k, x, "full text", "lexical") : k \in HitKeys, x \in LexScores}

\* key(h)
key(h) == <<h.git_ref, h.file_path, h.start_line, h.end_line>>

\* the position of key k in the dict merged (0: not in it); merged is the
\* sequence of its values in insertion order
KeyIndex(merged, k) ==
    IF \E j \in DOMAIN merged : key(merged[j]) = k
    THEN CHOOSE j \in DOMAIN merged : key(merged[j]) = k
    ELSE 0

\* for h in sem: merged[k] = dict(h), _sem = clamp01(score), _lex = 0.0
RECURSIVE MergeSem(_, _, _)
MergeSem(merged, sem, n) ==
    IF n > Len(sem) THEN merged
    ELSE LET h == sem[n]
             j == KeyIndex(merged, key(h))
             c == [sem |-> clamp01(h.score), lex |-> 0] @@ h
         IN  MergeSem(IF j = 0 THEN Append(merged, c) ELSE [merged EXCEPT ![j] = c],
                      sem, n + 1)

\* for h in lex: a new candidate, or the larger _lex and the text if none was kept
RECURSIVE MergeLex(_, _, _)
MergeLex(merged, lex, n) ==
    IF n > Len(lex) THEN merged
    ELSE LET h == lex[n]
             j == KeyIndex(merged, key(h))
         IN  MergeLex(
                 IF j = 0
                 THEN Append(merged, [sem |-> 0, lex |-> clamp01(h.score)] @@ h)
                 ELSE [merged EXCEPT ![j] =
                          [@ EXCEPT !.lex = Max(@, clamp01(h.score)),
                                    !.text = IF @ = "" /\ h.text # "" THEN h.text ELSE @]],
                 lex, n + 1)

\* the order of the sort keys: floats, or pairs of floats
KeyLess(p, q) == p[1] < q[1] \/ (p[1] = q[1] /\ p[2] < q[2])

\* list.sort(key=..., reverse=True) is stable: elements of equal key keep
\* their order.  order is the sorted sequence of the positions in keys.
RECURSIVE SortedInsert(_, _, _)
SortedInsert(order, n, keys) ==
    IF order = <<>> THEN <<n>>
    ELSE IF KeyLess(keys[order[Len(order)]], keys[n])
         THEN Append(SortedInsert(SubSeq(order, 1, Len(order) - 1), n, keys),
                     order[Len(order)])
         ELSE Append(order, n)

RECURSIVE SortOrder(_, _, _)
SortOrder(keys, n, order) ==
    IF n > Len(keys) THEN order
    ELSE SortOrder(keys, n + 1, SortedInsert(order, n, keys))

SortReverse(seq, keys) ==
    LET order == SortOrder(keys, 1, <<>>)
    IN  [j \in DOMAIN seq |-> seq[order[j]]]

\* seq[:n]
Prefix(seq, n) == SubSeq(seq, 1, Min(Len(seq), Max(0, n)))

\* the values of the dict merged after both loops
Merged(sem, lex) == MergeLex(MergeSem(<<>>, sem, 1), lex, 1)

\* candidates, with _hybrid, after the sort and the cut
Candidates(sem, lex, alpha, top_k) ==
    LET merged == Merged(sem, lex)
        scored == [j \in DOMAIN merged |->
                      [hybrid |-> Hybrid(alpha, merged[j].sem, merged[j].lex)] @@ merged[j]]
    IN  Prefix(SortReverse(scored, [j \in DOMAIN scored |-> <<scored[j].hybrid, 0>>]),
               Max(top_k * 5, top_k))

\* CrossEncoder: None when sentence_transformers is not installed
CrossEncoders == {None, "CrossEncoder"}

\* Reranker.available
available_always(model) == TRUE

available(model) == model # None

\* Reranker.rerank: predicted holds the scores of the model
rerank(model, passages, predicted) ==
    IF model = None THEN [j \in DOMAIN passages |-> 0]
    ELSE [j \in DOMAIN passages |-> predicted[j]]

\* the block `if use_rerank:`; a candidate has _rerank only if scores were set
Reranked(candidates, use_rerank, model, predicted) ==
    IF use_rerank /\ available(model)
    THEN LET scores == rerank(model, [j \in DOMAIN candidates |-> candidates[j].text],
                              predicted)
             scored == [j \in DOMAIN candidates |->
                           [rerank |-> scores[j]] @@ candidates[j]]
         IN  SortReverse(scored,
                 [j \in DOMAIN scored |-> <<scored[j].rerank, scored[j].hybrid>>])
    ELSE candidates

\* the final format of candidates[:top_k]
FormatHit(c) ==
    [score |-> IF "rerank" \in DOMAIN c THEN c.rerank ELSE c.hybrid,
     file_path |-> c.file_path, start_line |-> c.start_line, end_line |-> c.end_line,
     git_ref |-> c.git_ref, preview |-> c.preview,
     source |-> [semantic |-> c.sem, lexical |-> c.lex]]

FormatHits(candidates, top_k) ==
    [j \in DOMAIN Prefix(candidates, top_k) |-> FormatHit(candidates[j])]

\* the arguments of the calls
Alphas == {NaN, Num(0 - Fl(1, 2)), Num(Fl(5, 4))}
TopKs == {1, 2}

\* hybrid_search up to the block `if use_rerank:`
HybridSearch(sem, lex, alpha, top_k, use_rerank, model) ==
    /\ hs.pc = "idle"
    /\ hs' = [pc |-> "rerank", sem |-> sem, lex |-> lex, alpha |-> alpha, top_k |-> top_k,
              use_rerank |-> use_rerank, model |-> model, merged |-> Merged(sem, lex),
              candidates |-> Candidates(sem, lex, alpha, top_k), out |-> <<>>]
    /\ UNCHANGED <<indexVars, jobVars, reply, cg, ck>>

\* the block `if use_rerank:` and the final format
HsReturn(predicted) ==
    /\ hs.pc = "rerank"
    /\ (~(hs.use_rerank /\ available(hs.model))) => predicted = [j \in 1..2 |-> 0]
    /\ hs' = [hs EXCEPT !.pc = "returned",
                        !.candidates = Reranked(@, hs.use_rerank, hs.model, predicted),
                        !.out = FormatHits(Reranked(hs.candidates, hs.use_rerank, hs.model,
                                                    predicted), hs.top_k)]
    /\ UNCHANGED <<indexVars, jobVars, reply, cg, ck>>

\* a call of hybrid_search, with the hit lists its two searches return
HybridSearchCall ==
    /\ hs.pc = "idle"
    /\ \E sem \in UpToTwo(SemHits) : \E lex \in UpToTwo(LexHits) :
           \E alpha \in Alphas : \E top_k \in TopKs : \E use_rerank \in BOOLEAN :
               \E model \in CrossEncoders :
                   HybridSearch(sem, lex, alpha, top_k, use_rerank, model)

FusionNext ==
    \/ HybridSearchCall
    \/ \E predicted \in [1..2 -> {0, One}] : HsReturn(predicted)

FusionSpec == Init /\ [][FusionNext]_vars

\* the floats of [0, 1] the fusion is evaluated on
UnitFloats == {0} \cup {n \in (One \div 8)..One : RoundToFloat(n) = n}

\* C21: the hybrid score of a candidate lies between its semantic and its
\* lexical score, and over the clamped alpha it is non-decreasing when the
\* semantic score exceeds the lexical score and non-increasing otherwise.
C21_HybridMonotoneBetween ==
    hs.pc # "idle" =>
        \A j \in DOMAIN hs.merged :
            LET sem == hs.merged[j].sem
                lex == hs.merged[j].lex
            IN  /\ Min(sem, lex) <= Hybrid(hs.alpha, sem, lex)
                /\ Hybrid(hs.alpha, sem, lex) <= Max(sem, lex)
                /\ \A a1 \in UnitFloats : \A a2 \in UnitFloats :
                       a1 <= a2 =>
                           IF sem > lex
                           THEN Hybrid(Num(a1), sem, lex) <= Hybrid(Num(a2), sem, lex)
                           ELSE Hybrid(Num(a1), sem, lex) >= Hybrid(Num(a2), sem, lex)

\* the largest clamped score among the hits of hits with key k, 0 without any
BestScore(hits, k) ==
    LET xs == {clamp01(hits[n].score) : n \in {m \in DOMAIN hits : key(hits[m]) = k}}
    IN  IF xs = {} THEN 0 ELSE CHOOSE x \in xs : \A y \in xs : y <= x

\* C22: fusion yields one candidate per location key of the hits; its
\* semantic component is the largest clamped score among the semantic hits
\* with that key and its lexical component the largest clamped score among
\* the lexical hits with that key, 0 when there is none.
C22_BestScorePerKey ==
    hs.pc # "idle" =>
        /\ \A j \in DOMAIN hs.merged : \A n \in DOMAIN hs.merged :
               key(hs.merged[j]) = key(hs.merged[n]) => j = n
        /\ {key(hs.merged[j]) : j \in DOMAIN hs.merged}
               = {key(hs.sem[n]) : n \in DOMAIN hs.sem}
                     \cup {key(hs.lex[n]) : n \in DOMAIN hs.lex}
        /\ \A j \in DOMAIN hs.merged :
               /\ hs.merged[j].sem = BestScore(hs.sem, key(hs.merged[j]))
               /\ hs.merged[j].lex = BestScore(hs.lex, key(hs.merged[j]))

\* C23: a call with use_rerank enabled and no reranker available returns, and
\* its results, their order and their scores are those of the same call with
\* use_rerank disabled.
C23_RerankUnavailableIsNoOp ==
    (hs.pc = "returned" /\ hs.use_rerank /\ hs.model = None) =>
        hs.out = FormatHits(
                     Reranked(Candidates(hs.sem, hs.lex, hs.alpha, hs.top_k), FALSE,
                              hs.model, <<>>),
                     hs.top_k)

\* such a call that returned two results of different score
C23_Witness ==
    /\ hs.pc = "returned" /\ hs.use_rerank /\ hs.model = None
    /\ Len(hs.out) = 2
    /\ hs.out[1].score > hs.out[2].score /\ hs.out[2].score > 0

(***************************************************************************)
(* Calls of chunk_fallback, chunk_python and analyze_python_source, each   *)
(* on a text drawn from a small family; ck holds the arguments and what    *)
(* the call returned or raised.                                            *)
(***************************************************************************)
\* the number of lines of a text handed to chunk_fallback
MaxTextLines == 5
\* the largest max_lines of a call of chunk_fallback
MaxWindowLines == 3

SeqsUpTo(S, n) == UNION {[1..k -> S] : k \in 1..n}

\* the text whose lines are `lines`, each ended by a newline
TextOf(lines) == join(lines) \o <<NL>>

IsBlank(line) == strip(line) = <<>>

FbLines == {<<"a">>, <<>>, <<" ">>}

\* chunk_fallback(rel_path, text, language, max_lines, overlap_lines).  The
\* while loop ends only when each round moves i forward, that is when
\* overlap_lines < max_lines; the calls drawn here are those that return.
ChunkFallback(lines, max_lines, overlap_lines) ==
    /\ ck' = [pc |-> "returned", op |-> "chunk_fallback", lines |-> lines,
              max_lines |-> max_lines, overlap_lines |-> overlap_lines, raised |-> None,
              chunks |-> chunk_fallback("a.md", TextOf(lines), "markdown",
                                        max_lines, overlap_lines)]
    /\ UNCHANGED <<indexVars, jobVars, reply, cg, hs>>

ChunkFallbackCall ==
    /\ ck.pc = "idle"
    /\ \E lines \in SeqsUpTo(FbLines, MaxTextLines) :
         \E max_lines \in 1..MaxWindowLines :
           \E overlap_lines \in 0..(max_lines - 1) :
             ChunkFallback(lines, max_lines, overlap_lines)

FallbackReturned == ck.pc = "returned" /\ ck.op = "chunk_fallback"

\* the number of lines of a chunk's range
Span(c) == c.end_line - c.start_line + 1

\* C24: every window emitted by chunk_fallback spans at most max_lines lines.
C24_WindowAtMostMaxLines ==
    FallbackReturned =>
        \A k \in 1..Len(ck.chunks) : Span(ck.chunks[k]) <= ck.max_lines

\* a text longer than max_lines cut into several windows, one of them full
C24_Witness ==
    /\ FallbackReturned
    /\ Len(ck.lines) > ck.max_lines /\ ck.max_lines > 1
    /\ Len(ck.chunks) >= 2
    /\ \E k \in 1..Len(ck.chunks) : Span(ck.chunks[k]) = ck.max_lines

\* the lines two chunks have in common, the later starting after the earlier
Shared(a, b) == a.end_line - b.start_line + 1

\* C25 as claimed: every two consecutive windows emitted by chunk_fallback
\* share exactly overlap_lines lines.
C25_ConsecutiveShareOverlap ==
    FallbackReturned =>
        \A k \in 1..(Len(ck.chunks) - 1) :
            Shared(ck.chunks[k], ck.chunks[k + 1]) = ck.overlap_lines

\* the windows the loop skipped between two emitted ones: the later starts a
\* whole number of steps further on and every line of the skipped windows is
\* whitespace
SkippedBetween(a, b) ==
    LET first == a.end_line - ck.overlap_lines + 1
        step == ck.max_lines - ck.overlap_lines
    IN  /\ b.start_line > first
        /\ (b.start_line - first) % step = 0
        /\ \A l \in first..(b.start_line - 1 + ck.overlap_lines) : IsBlank(ck.lines[l])

\* C25: two consecutive windows emitted by chunk_fallback share exactly
\* overlap_lines lines, unless windows of whitespace only were skipped
\* between them.
C25_ShareOverlapUnlessSkipped ==
    FallbackReturned =>
        \A k \in 1..(Len(ck.chunks) - 1) :
            \/ Shared(ck.chunks[k], ck.chunks[k + 1]) = ck.overlap_lines
            \/ SkippedBetween(ck.chunks[k], ck.chunks[k + 1])

\* three windows, the last two around a skipped one
C25_Witness ==
    /\ FallbackReturned /\ ck.overlap_lines >= 1
    /\ Len(ck.chunks) = 3
    /\ Shared(ck.chunks[1], ck.chunks[2]) = ck.overlap_lines
    /\ SkippedBetween(ck.chunks[2], ck.chunks[3])

(***************************************************************************)
(* Python texts of one top-level function f, with what ast.parse gives     *)
(* for them: an optional first line, the def line and a body.              *)
(***************************************************************************)
\* the number of lines of the body of f
MaxBodyLines == 3

\* def f():
DefLine == <<"d", "e", "f", " ", "f", "(", ")", ":">>
\* " 0", "", " h()", " hh(1, 22)"
BodyLines ==
    {<<" ", "0">>, <<>>, <<" ", "h", "(", ")">>,
     <<" ", "h", "h", "(", "1", ",", " ", "2", "2", ")">>}
\* no first line, x=1, or an empty line
Prefixes == {<<>>, <<<<"x", "=", "1">>>>, <<<<>>>>}
\* values of max_chunk_chars: below the length of the def line, and the
\* length of the longest body line
ChunkLimits == {6, 10}

\* the statement of a body line (a Call, or the expression 0)
StmtOf(line, lineno) ==
    IF Len(line) > 2
    THEN LET callee == IF Len(line) > 4 THEN "hh" ELSE "h"
         IN  Node("Call", callee, lineno, lineno, 1, <<callee>>, <<>>)
    ELSE Node("Expr", None, lineno, lineno, 1, <<>>, <<>>)

PySource(prefix, body) ==
    LET lines == prefix \o <<DefLine>> \o body
        start == Len(prefix) + 1
        stmts == [k \in 1..Len(body) |-> StmtOf(body[k], start + k)]
        inner == SelectSeq([k \in 1..Len(body) |-> [line |-> body[k], node |-> stmts[k]]],
                           LAMBDA x : ~IsBlank(x.line))
        f == Node("FunctionDef", "f", start, Len(lines), 0, <<>>,
                  [k \in 1..Len(inner) |-> inner[k].node])
        assign == IF prefix # <<>> /\ ~IsBlank(prefix[1])
                  THEN <<Node("Assign", None, 1, 1, 0, <<>>, <<>>)>>
                  ELSE <<>>
    IN  Source(TextOf(lines), TRUE, assign \o <<f>>)

\* the body of a function ends with a statement
Bodies == {b \in SeqsUpTo(BodyLines, MaxBodyLines) : ~IsBlank(b[Len(b)])}

\* x = 1+1+...+1, a sum of some thousand terms: ast.parse raises
\* RecursionError ("maximum recursion depth exceeded during ast
\* construction"), which is no SyntaxError
PyDeep ==
    Source(<<"x", "=", "1", "+", "1", NL>>, FALSE, <<>>) @@ [error |-> "RecursionError"]

PyInputs == {PySource(prefix, body) : prefix \in Prefixes, body \in Bodies} \cup {PyBad, PyDeep}

\* what ast.parse(text) raises past `except SyntaxError` (None when it
\* returns a tree or raises SyntaxError)
Uncaught(src) == IF "error" \in DOMAIN src THEN src.error ELSE None

\* chunk_python(rel_path, text, max_chunk_chars)
ChunkPython(src, max_chars) ==
    /\ ck' = [pc |-> "returned", op |-> "chunk_python", src |-> src,
              max_chars |-> max_chars, raised |-> Uncaught(src),
              result |-> IF Uncaught(src) = None
                         THEN chunk_python("a.py", src, max_chars)
                         ELSE Null]
    /\ UNCHANGED <<indexVars, jobVars, reply, cg, hs>>

ChunkPythonCall ==
    /\ ck.pc = "idle"
    /\ \E src \in PyInputs : \E max_chars \in ChunkLimits : ChunkPython(src, max_chars)

\* a call of chunk_python that returned chunks of a parsed text
PythonChunked == ck.pc = "returned" /\ ck.op = "chunk_python" /\ ck.src.ok

\* the window chunks of the function f, in the order of the list
WindowsOf(chunks) == SelectSeq(chunks, LAMBDA c : c.chunk_type = "window")

\* the node of f in the tree of a text
DefNode(src) == src.tree[Len(src.tree)]

\* C26: every window chunk chunk_python emits for an oversized top-level
\* definition has a text of at most max_chunk_chars characters.
C26_WindowTextAtMostMaxChars ==
    PythonChunked =>
        \A k \in 1..Len(ck.result.chunks) :
            ck.result.chunks[k].chunk_type = "window" =>
                Len(ck.result.chunks[k].text) <= ck.max_chars

\* C27: the windows of an oversized definition are in order, do not overlap,
\* follow one another without a gap and cover exactly [start, end].
C27_WindowsCoverDefinition ==
    PythonChunked =>
        LET w == WindowsOf(ck.result.chunks)
        IN  w # <<>> =>
              /\ w[1].start_line = DefNode(ck.src).lineno
              /\ w[Len(w)].end_line = DefNode(ck.src).end_lineno
              /\ \A k \in 1..Len(w) : w[k].start_line <= w[k].end_line
              /\ \A k \in 1..(Len(w) - 1) : w[k + 1].start_line = w[k].end_line + 1

\* the chunks a call of chunk_python or chunk_fallback returned
ChunksReturned ==
    IF ck.pc = "returned" /\ ck.op = "chunk_fallback" THEN ck.chunks
    ELSE IF ck.pc = "returned" /\ ck.op = "chunk_python" /\ ck.raised = None
    THEN ck.result.chunks
    ELSE <<>>

\* text.strip() == text and text != ""
Trimmed(text) == text # <<>> /\ ~IsSpace(text[1]) /\ ~IsSpace(text[Len(text)])

\* C28: every chunk emitted by chunk_python or chunk_fallback has a text that
\* is not empty and has no leading or trailing whitespace.
C28_ChunkTextTrimmed ==
    \A k \in 1..Len(ChunksReturned) : Trimmed(ChunksReturned[k].text)

\* chunk_python raises on no text, and on a text that does not parse it
\* returns the chunks of chunk_fallback and no symbols
ChunkPythonNeverRaises ==
    (ck.pc = "returned" /\ ck.op = "chunk_python") =>
        /\ ck.raised = None
        /\ ~ck.src.ok =>
              ck.result = [chunks |-> chunk_fallback("a.py", ck.src.text, "python",
                                                     PyFallbackMaxLines, PyFallbackOverlap),
                           symbols |-> <<>>]

(***************************************************************************)
(* Python texts of definitions nested in one another, outermost first:     *)
(* each of def, async def or class, the innermost with the body 0.         *)
(***************************************************************************)
\* how many definitions are nested in one another
MaxNesting == 3

DefKinds == {"FunctionDef", "AsyncFunctionDef", "ClassDef"}
NestNames == <<"a", "b", "c", "d">>
Indent(k) == [i \in 1..k |-> " "]

\* def a(): / async def a(): / class a:
HeaderLine(kind, name) ==
    CASE kind = "FunctionDef" -> <<"d", "e", "f", " ", name, "(", ")", ":">>
      [] kind = "AsyncFunctionDef" ->
             <<"a", "s", "y", "n", "c", " ", "d", "e", "f", " ", name, "(", ")", ":">>
      [] kind = "ClassDef" -> <<"c", "l", "a", "s", "s", " ", name, ":">>

RECURSIVE NestNode(_, _)
NestNode(kinds, k) ==
    Node(kinds[k], NestNames[k], k, Len(kinds) + 1, k - 1, <<>>,
         IF k = Len(kinds)
         THEN <<Node("Expr", None, k + 1, k + 1, k, <<>>, <<>>)>>
         ELSE <<NestNode(kinds, k + 1)>>)

NestSource(kinds) ==
    LET n == Len(kinds)
        lines == [k \in 1..(n + 1) |->
                     IF k <= n THEN Indent(k - 1) \o HeaderLine(kinds[k], NestNames[k])
                     ELSE Indent(n) \o <<"0">>]
    IN  Source(TextOf(lines), TRUE, <<NestNode(kinds, 1)>>)

AnalyzeInputs ==
    {NestSource(kinds) : kinds \in SeqsUpTo(DefKinds, MaxNesting)}
        \cup {PySource(<<>>, body) : body \in Bodies} \cup {PyTwo, PyBad, PyDeep}

\* analyze_python_source(text)
Analyze(src) ==
    /\ ck' = [pc |-> "returned", op |-> "analyze_python_source", src |-> src,
              raised |-> Uncaught(src),
              result |-> IF Uncaught(src) = None THEN analyze_python_source(src) ELSE Null]
    /\ UNCHANGED <<indexVars, jobVars, reply, cg, hs>>

AnalyzeCall == ck.pc = "idle" /\ \E src \in AnalyzeInputs : Analyze(src)

\* C29: chunk_python and analyze_python_source raise on no text; on a text
\* that does not parse chunk_python returns the chunks of chunk_fallback and
\* no symbols, and analyze_python_source returns three empty lists.
C29_NeverRaises ==
    /\ ChunkPythonNeverRaises
    /\ (ck.pc = "returned" /\ ck.op = "analyze_python_source") =>
          /\ ck.raised = None
          /\ ~ck.src.ok => ck.result = [defs |-> <<>>, refs |-> <<>>, calls |-> <<>>]

\* the definitions C30 describes, in the order of the visit: one for every
\* def, async def and class; a function is a method iff a class encloses it
RECURSIVE ClaimedDefs(_, _, _)
ClaimedDefs(body, k, in_class) ==
    IF k > Len(body) THEN <<>>
    ELSE LET node == body[k]
             own == IF node.t = "ClassDef"
                    THEN <<[name |-> node.name, kind |-> "class", line |-> node.lineno]>>
                             \o ClaimedDefs(node.body, 1, TRUE)
                    ELSE IF node.t \in {"FunctionDef", "AsyncFunctionDef"}
                    THEN <<[name |-> node.name,
                            kind |-> IF in_class THEN "method" ELSE "function",
                            line |-> node.lineno]>>
                             \o ClaimedDefs(node.body, 1, in_class)
                    ELSE <<>>
         IN  own \o ClaimedDefs(body, k + 1, in_class)

\* C30: the analyzer emits one definition for every function, async function
\* and class; a function is a "method" iff it is nested inside a class, a
\* "function" otherwise, and every class is a "class".
C30_DefinitionKinds ==
    (ck.pc = "returned" /\ ck.op = "analyze_python_source" /\ ck.src.ok) =>
        [k \in 1..Len(ck.result.defs) |->
            [name |-> ck.result.defs[k].name, kind |-> ck.result.defs[k].kind,
             line |-> ck.result.defs[k].start_line]]
          = ClaimedDefs(ck.src.tree, 1, FALSE)

ChunkNext == ChunkFallbackCall \/ ChunkPythonCall \/ AnalyzeCall

ChunkSpec == Init /\ [][ChunkNext]_vars

(***************************************************************************)
(* C31: the state of a job record only moves from running to finished or   *)
(* from running to failed; once a job is finished or failed its state,     *)
(* error and finished_at never change again and no later progress callback *)
(* overwrites its progress.                                                *)
(***************************************************************************)
TerminalStates == {"finished", "failed"}

C31_TerminalJobsFrozen ==
    [][\A j \in DOMAIN jobs :
          /\ jobs'[j].state # jobs[j].state =>
                jobs[j].state = "running" /\ jobs'[j].state \in TerminalStates
          /\ jobs[j].state \in TerminalStates =>
                /\ jobs'[j].state = jobs[j].state
                /\ jobs'[j].error = jobs[j].error
                /\ jobs'[j].finished_at = jobs[j].finished_at
                /\ jobs'[j].progress = jobs[j].progress]_vars

\* a job failed before any progress, and the runner of the next job reported
\* progress after that
C31_Witness ==
    /\ Len(jobs) >= 2
    /\ jobs[1].state = "failed" /\ jobs[1].progress = 0
    /\ jobs[2].state = "running" /\ jobs[2].processed_files = 1

(***************************************************************************)
(* C37: every job submitted to the JobManager eventually reaches state     *)
(* finished or failed, provided each runner invocation returns or raises.  *)
(***************************************************************************)
C37_EveryJobEnds ==
    \A j \in 1..MaxJobs :
        (j \in DOMAIN jobs) ~> (j \in DOMAIN jobs /\ jobs[j].state \in TerminalStates)

\* all the jobs ended, the first by raising, while none is left in the queue
C37_Witness ==
    /\ Len(jobs) = MaxJobs
    /\ \A j \in DOMAIN jobs : jobs[j].state \in TerminalStates
    /\ jobs[1].state = "failed" /\ jobs[MaxJobs].state = "finished"
    /\ work_queue = <<>> /\ \A w \in Workers : workers[w].pc = "idle"

(***************************************************************************)
(* The while loop of chunk_fallback, one round per step, for every         *)
(* max_lines >= 1 and overlap_lines >= 0.  ck holds the locals that decide *)
(* the loop (lines, i, j) and the window of the last round; the list out   *)
(* is what the operator chunk_fallback returns.                            *)
(***************************************************************************)
\* the largest overlap_lines of a call
MaxOverlapLines == 3

\* lines = text.splitlines(); out = []; i = 0; n = len(lines)
FallbackEnter(lines, max_lines, overlap_lines) ==
    /\ ck' = [pc |-> "loop", op |-> "chunk_fallback_loop",
              lines |-> splitlines(TextOf(lines)),
              max_lines |-> max_lines, overlap_lines |-> overlap_lines,
              i |-> 0, j |-> 0, window |-> Null]
    /\ UNCHANGED <<indexVars, jobVars, reply, cg, hs>>

FallbackEnterCall ==
    /\ ck.pc = "idle"
    /\ \E lines \in SeqsUpTo(FbLines, MaxTextLines) :
         \E max_lines \in 1..MaxWindowLines :
           \E overlap_lines \in 0..MaxOverlapLines :
             FallbackEnter(lines, max_lines, overlap_lines)

\* one test of `while i < n` and, when it holds, one round of the body
FallbackRound ==
    /\ ck.pc = "loop"
    /\ LET n == Len(ck.lines)
           j == WindowEnd(n, ck.i, ck.max_lines)
           window == strip(join(PySlice(ck.lines, ck.i, j)))
       IN  ck' = IF ~(ck.i < n) THEN [ck EXCEPT !.pc = "returned"]
                 ELSE [ck EXCEPT !.j = j,
                                 !.window = IF window # <<>> THEN <<ck.i + 1, j>> ELSE Null,
                                 !.pc = IF j >= n THEN "returned" ELSE "loop",
                                 !.i = IF j >= n THEN ck.i ELSE NextStart(j, ck.overlap_lines)]
    /\ UNCHANGED <<indexVars, jobVars, reply, cg, hs>>

FallbackNext == FallbackEnterCall \/ FallbackRound

FallbackSpec == Init /\ [][FallbackNext]_vars

\* the thread that runs chunk_fallback keeps running
FallbackFairSpec == FallbackSpec /\ WF_vars(FallbackRound)

(***************************************************************************)
(* C38: chunk_fallback terminates for every text and every configuration   *)
(* with max_lines >= 1 and overlap_lines >= 0: the window start index      *)
(* strictly increases on every loop iteration.  With overlap_lines >=      *)
(* max_lines the index does not increase; TLC refutes this statement.      *)
(***************************************************************************)
C38_FallbackTerminates ==
    /\ [][(ck.pc = "loop" /\ ck'.pc = "loop") => ck'.i > ck.i]_vars
    /\ (ck.pc = "loop") ~> (ck.pc = "returned")

(***************************************************************************)
(* The body of the loop of index_repo for a changed file, as one function  *)
(* of the stores: what index_repo does to the stores `before` for the file *)
(* rel of content c under (wid, git_ref).                                  *)
(***************************************************************************)
RepoWrites(before, wid, git_ref, now, rel, c, mtime) ==
    LET src == Content(c)
        lang == guess_language(rel)
        chunked == ChunkFile(rel, lang, src)
        an == analyze_python_source(src)
        def_rows == DefRows(wid, git_ref, rel, an.defs)
        pts == upsert_chunks(delete_file(before[7], wid, rel, git_ref),
                             PointsOf(wid, git_ref, now, chunked.chunks))
        syms1 == DeleteFileRows(before[3], wid, git_ref, rel)
        refs1 == DeleteFileRows(before[4], wid, git_ref, rel)
        edges1 == DeleteEdgesOfFile(before[5], syms1, wid, git_ref, rel)
        syms2 == InsertOrReplaceSymbols(syms1, def_rows, 1)
        refs2 == InsertOrReplaceRefs(refs1, RefRows(wid, git_ref, rel, an.refs), 1)
        global_rows == {r \in syms2 : r.workspace_id = wid /\ r.git_ref = git_ref}
        edges2 == IF an.calls # <<>> /\ def_rows # <<>>
                  THEN InsertOrReplaceEdges(edges1,
                           EdgeRows(wid, git_ref, def_rows, global_rows, an.calls), 1)
                  ELSE edges1
        fts == InsertFts(BagDeleteFileRows(before[6], wid, git_ref, rel),
                         FtsRows(wid, git_ref, chunked.chunks), 1)
        files == UpsertFileRecord(before[1],
                     FileRecord(wid, git_ref, rel, sha256_file(src.text), mtime,
                                Len(src.text), lang, now))
        symsnap == InsertOrIgnoreSymSnap(DeleteFileRows(before[2], wid, git_ref, rel),
                       SymSnapRows(wid, git_ref, rel, chunked.symbols), 1)
        py == lang = "python"
    IN  <<files, symsnap, IF py THEN syms2 ELSE before[3], IF py THEN refs2 ELSE before[4],
          IF py THEN edges2 ELSE before[5], fts, pts>>

\* a run has just processed a changed file named by its normalized path
ProcessedChanged(kind) ==
    /\ pc = "loop" /\ cur.verdict = "changed" /\ run.kind = kind
    /\ cur.rel \in Files

Callees(ids, wid, git_ref) ==
    {e.to_symbol_id : e \in {x \in DOMAIN py_call_edges :
                                /\ x.workspace_id = wid /\ x.git_ref = git_ref
                                /\ x.from_symbol_id \in ids}} \ {Null}

RECURSIVE ReachWithin(_, _, _, _)
ReachWithin(ids, k, wid, git_ref) ==
    IF k <= 0 THEN ids
    ELSE ReachWithin(ids \cup Callees(ids, wid, git_ref), k - 1, wid, git_ref)

\* a call with direction "out" that found its revision and returned
OutCallReturned == cg.pc = "returned" /\ cg.error = None /\ cg.direction = "out"

\* the returned nodes are the start symbol and the symbols within k resolved
\* edges of it; every unresolved edge of a symbol within k - 1 edges is in
\* the edge list, under the callee's name, and no node stands for it
NodesAreReach(k) ==
    LET wid == workspace_id_for(RepoRoot)
    IN  /\ Visited(cg.nodes) = ReachWithin({cg.symbol_id}, k, wid, cg.git_ref)
        /\ \A e \in DOMAIN py_call_edges :
              (/\ e.workspace_id = wid /\ e.git_ref = cg.git_ref
               /\ e.to_symbol_id = Null
               /\ e.from_symbol_id \in ReachWithin({cg.symbol_id}, k - 1, wid, cg.git_ref))
                => /\ \E r \in DOMAIN cg.edges :
                         /\ r.from = e.from_symbol_id /\ r.to = e.to_name
                         /\ r.to_symbol_id = Null /\ r.call_line = e.call_line
                   /\ e.to_name \notin Visited(cg.nodes)

\* C33 as claimed: with direction "out" and the fan-out cap not reached, the
\* node set py_callgraph returns for depth d is the start symbol plus every
\* symbol within d resolved call edges of it, for every depth d.
C33_NodesWithinDepth == OutCallReturned => NodesAreReach(cg.depth)

\* C33: with direction "out" and the fan-out cap not reached, the node set
\* py_callgraph returns for depth d is the start symbol plus every symbol
\* within max(1, d) resolved call edges of it (a depth below 1 counts as 1);
\* unresolved edges are in the edge list and are never expanded.
C33_NodesWithinClampedDepth == OutCallReturned => NodesAreReach(Max(1, cg.depth))

\* a chain of three calls followed to its end, the last one unresolved
C33_Witness ==
    /\ OutCallReturned /\ cg.depth = 3
    /\ Cardinality(Visited(cg.nodes)) = 3
    /\ \E r \in DOMAIN cg.edges : r.to_symbol_id = Null

(***************************************************************************)
(* Every per-file row belongs to a registered workspace and snapshot.      *)
(***************************************************************************)
PerFileRows ==
    files_snap \cup DOMAIN chunk_fts \cup symbols_snap \cup py_symbols \cup py_refs
        \cup DOMAIN py_call_edges

HasWorkspace(wid) == \E w \in workspaces : w.workspace_id = wid

HasSnapshot(wid, git_ref) ==
    \E x \in snapshots : x.workspace_id = wid /\ x.git_ref = git_ref

\* C34: in every reachable state each FileRecord, lexical row, symbol,
\* reference and call-edge row carries a (workspace, revision) for which a
\* snapshot row exists and a workspace id for which a workspace row exists.
C34_RowsHaveWorkspaceAndSnapshot ==
    \A r \in PerFileRows :
        HasWorkspace(r.workspace_id) /\ HasSnapshot(r.workspace_id, r.git_ref)

\* rows of every kind are stored, for two revisions of the workspace
C34_Witness ==
    /\ \E r1 \in files_snap : \E r2 \in files_snap : r1.git_ref # r2.git_ref
    /\ chunk_fts # EmptyBag /\ py_symbols # {} /\ py_refs # {}
    /\ py_call_edges # EmptyBag

(***************************************************************************)
(* A run that fails in the middle of a file: one of the statements of the  *)
(* loop body raises (sqlite3.OperationalError, a Qdrant error, ...) after  *)
(* the first deletion was made; the statements before it are committed.    *)
(***************************************************************************)
AfterFirstMutation ==
    {"vec_upsert", "py_symbols_delete", "py_refs_delete", "py_edges_delete",
     "py_symbols_insert", "py_refs_insert", "py_edges_insert", "fts_delete",
     "fts_insert", "files_snap_upsert", "symbols_snap_delete", "symbols_snap_insert"}

StepRaises ==
    /\ pc \in AfterFirstMutation
    /\ pc' = "raised"
    /\ UNCHANGED <<envVars, clock, run, cur, result, sqlVars, points, hist>>
    /\ UNCHANGED serverVars

CrashNext == Next \/ StepRaises

CrashSpec == Init /\ [][CrashNext]_vars

\* the FileRecord stored for the file in hand equals what Scan read from disk
RecordIsNew ==
    is_unchanged(FetchFileRecord(files_snap, run.wid, run.git_ref, cur.rel),
                 cur.file_hash, cur.mtime, cur.size)

\* C35: the FileRecord is the last row written for a file: while a statement
\* of the file's processing is still to come, and after one of them failed,
\* the stored FileRecord is absent or holds the old (digest, mtime, size), so
\* that the next run finds the file changed.
C35_FileRecordWrittenLast ==
    (cur.verdict = "changed" /\ pc \in AfterFirstMutation \cup {"raised"}) => ~RecordIsNew

(***************************************************************************)
(* The rows of a revision after a complete index_repo run, against the     *)
(* files discover_files returned in that run (hist.discovered).            *)
(***************************************************************************)
IndexRepoCompleted == pc = "idle" /\ run.kind = "repo"

\* the files that have a FileRecord, lexical row, symbol row, reference row
\* or vector point under (wid, git_ref)
FilesWithRows(wid, git_ref) ==
    {x.file_path : x \in {y \in files_snap \cup DOMAIN chunk_fts \cup symbols_snap
                                   \cup py_symbols \cup py_refs :
                              y.workspace_id = wid /\ y.git_ref = git_ref}}
        \cup {p.payload.file_path :
                 p \in {q \in points : /\ q.payload.workspace_id = wid
                                       /\ q.payload.git_ref = git_ref}}

\* C36: after index_repo completes for a (workspace, revision), every
\* FileRecord, lexical row, symbol row, reference row and vector point stored
\* for it belongs to a file that discovery returned in that run: the rows of
\* a file removed from the tree do not survive the run.
C36_RowsOnlyOfDiscoveredFiles ==
    IndexRepoCompleted => FilesWithRows(run.wid, run.git_ref) \subseteq hist.discovered

(***************************************************************************)
(* The origin of the call edges of a file.  A Python file may define a     *)
(* name more than once (a property and its setter, overloads, a function   *)
(* defined under if and under else): the tree may hold such a file.        *)
(***************************************************************************)
\* a.py is rewritten with a content that defines m twice
WriteRedefined ==
    /\ Quiescent
    /\ edits < MaxEdits
    /\ tree' = [tree EXCEPT !["a.py"] =
                   [c |-> "PyTwice", mtime |-> CHOOSE m \in Mtimes : m # tree["a.py"].mtime,
                    mode |-> "ok"]]
    /\ edits' = edits + 1
    /\ hist' = [hist EXCEPT !.fresh = FALSE]
    /\ UNCHANGED <<head, runVars, sqlVars, points>>
    /\ UNCHANGED serverVars

RedefNext == Next \/ WriteRedefined

RedefSpec == Init /\ [][RedefNext]_vars

\* the edge rows the run has just inserted for the file in hand
EdgesJustInserted ==
    IF CurAnalysis.calls # <<>> /\ CurDefRows # <<>>
    THEN SeqToSet(EdgeRows(run.wid, run.git_ref, CurDefRows, GlobalRows, CurAnalysis.calls))
    ELSE {}

IsCallable(d) == d.symbol_kind \in {"function", "method"}

Encloses(d, line) == d.start_line <= line /\ line <= d.end_line

\* d is the innermost callable among defs whose lines hold the call line
InnermostCallable(d, defs, line) ==
    /\ IsCallable(d) /\ Encloses(d, line)
    /\ \A k \in DOMAIN defs :
          (IsCallable(defs[k]) /\ Encloses(defs[k], line))
            => (defs[k].start_line <= d.start_line /\ d.end_line <= defs[k].end_line)

\* C39: every call edge inserted while a file is indexed has as origin the
\* symbol id of the definition, among the file's current definitions, that
\* is the innermost callable enclosing the call: the origin is a stored
\* symbol of the same (workspace, revision, file) and its line range holds
\* the edge's call line.
C39_EdgeOriginEnclosesCall ==
    (pc = "fts_delete" /\ cur.lang = "python") =>
        \A e \in EdgesJustInserted :
            /\ BagIn(e, py_call_edges)
            /\ \E k \in DOMAIN CurDefRows :
                  /\ CurDefRows[k].symbol_id = e.from_symbol_id
                  /\ CurDefRows[k] \in py_symbols
                  /\ InSnapFile(CurDefRows[k], run.wid, run.git_ref, cur.rel)
                  /\ InnermostCallable(CurDefRows[k], CurDefRows, e.call_line)

====
